---- MODULE Spec2Model ----
(***************************************************************************)
(* State-machine model of the smart-job-finder backend: the token codec    *)
(* (app/utils/security.py), the authentication routes (app/routes/auth.py) *)
(* and the role / ownership guarded routes over the users, jobs,           *)
(* applications, saved_jobs and profiles collections.                      *)
(*                                                                         *)
(* Time is the UTC clock in whole seconds, the granularity at which the    *)
(* JWT library stores exp and iat.  Dictionaries are functions from field  *)
(* names to values; a collection is a set of documents.                    *)
(***************************************************************************)
EXTENDS Integers, FiniteSets, Sequences, TLC

VARIABLES
    now,           \* the UTC clock, seconds
    ticks,         \* how many times the clock has advanced
    users,         \* users collection
    jobs,          \* jobs collection
    nextJobId,     \* next ObjectId the jobs collection hands out
    applications,  \* applications collection
    saved_jobs,    \* saved_jobs collection
    profiles,      \* profiles collection
    issued,        \* tokens produced by create_access_token so far
    outbox,        \* e-mails queued as background tasks
    resp,          \* the last request and its response
    reg            \* requests in flight (concurrent specifications)

vars == <<now, ticks, users, jobs, nextJobId, applications, saved_jobs,
          profiles, issued, outbox, resp, reg>>

collections == <<users, jobs, nextJobId, applications, saved_jobs, profiles>>

----------------------------------------------------------------------------
(* Configuration (app/config.py) and bounds                                *)

ACCESS_TOKEN_EXPIRE_MINUTES == 1440
REMEMBER_ME_DAYS == 7
SECRET_KEY == "your-secret-key-change-this"
ADMIN_REGISTRATION_CODE == "ADMIN2024"

SecondsPerMinute == 60
SecondsPerDay == 86400

MaxTicks == 1      \* clock advances in one behaviour
MaxDrift == 1      \* seconds the clock may advance between two reads in one call
MaxIssued == 1     \* direct create_access_token calls in one behaviour
MaxJobs == 1       \* jobs ever created
MaxSaved == 2      \* saved_jobs documents
MaxOutbox == 2     \* queued e-mails
MaxProfiles == 1   \* profiles documents
MaxRegs == 3       \* register requests in flight together
MaxAlerts == 1     \* job alerts of one user

None == "None"          \* Python None where a string is expected
NoneDoc == [none |-> TRUE]   \* Python None where a dict / document is expected

\* a datetime field: None, or the clock value it holds
NoneTime == <<>>
Datetime(t) == <<t>>

Get(d, k) == IF k \in DOMAIN d THEN d[k] ELSE None

\* dict.update(): the entries of e replace or extend those of d
Update(d, e) == [k \in DOMAIN d \cup DOMAIN e |-> IF k \in DOMAIN e THEN e[k] ELSE d[k]]

EmptyDict == [k \in {} |-> None]

\* Python truthiness of a decoded payload: None and {} are falsy
Falsy(payload) == payload = NoneDoc \/ DOMAIN payload = {}

----------------------------------------------------------------------------
(* Token codec: app/utils/security.py                                      *)

\* jwt.encode: a signed token is its claim set, the key it was signed with
\* and whether it is a well-formed three-segment JWT
jwt_encode(to_encode, key) == [wf |-> TRUE, key |-> key, claims |-> to_encode]

\* create_access_token(data, remember_me), the clock read as t1 for exp and
\* as t2 for iat
create_access_token(data, remember_me, t1, t2) ==
    LET expire == IF remember_me
                  THEN t1 + REMEMBER_ME_DAYS * SecondsPerDay
                  ELSE t1 + ACCESS_TOKEN_EXPIRE_MINUTES * SecondsPerMinute
        to_encode1 == Update(data, [exp |-> expire, iat |-> t2])
        to_encode2 == IF "type" \notin DOMAIN to_encode1
                      THEN Update(to_encode1, [type |-> "access"])
                      ELSE to_encode1
    IN jwt_encode(to_encode2, SECRET_KEY)

\* jwt.decode(token, key) at time t: the exception it raises, or the payload
jwt_decode(token, key, t) ==
    IF ~token.wf THEN [exc |-> "JWTError", payload |-> NoneDoc]
    ELSE IF token.key # key THEN [exc |-> "JWTError", payload |-> NoneDoc]
    ELSE IF "exp" \in DOMAIN token.claims /\ token.claims["exp"] < t
         THEN [exc |-> "ExpiredSignatureError", payload |-> NoneDoc]
         ELSE [exc |-> None, payload |-> token.claims]

\* exception classes caught by `except JWTError`
JWTErrorClasses == {"JWTError", "ExpiredSignatureError", "JWTClaimsError"}

\* decode_token as a call: what it returns, or the exception it lets through
DecodeUncaught(token, t) ==
    LET r == jwt_decode(token, SECRET_KEY, t)
    IN IF r.exc = None THEN [raised |-> None, value |-> r.payload]
       ELSE IF r.exc = "ExpiredSignatureError" THEN [raised |-> None, value |-> NoneDoc]
       ELSE [raised |-> r.exc, value |-> NoneDoc]

\* a decoder with single-session semantics: a token is refused once a later
\* token for the same subject has been issued
DecodeLatestOnly(token, t) ==
    LET r == jwt_decode(token, SECRET_KEY, t)
        superseded == \E other \in issued :
                          /\ Get(other.claims, "sub") = Get(token.claims, "sub")
                          /\ other.claims["iat"] > token.claims["iat"]
    IN IF r.exc = None /\ ~superseded THEN [raised |-> None, value |-> r.payload]
       ELSE [raised |-> None, value |-> NoneDoc]

decode_token_call(token, t) ==
    LET r == jwt_decode(token, SECRET_KEY, t)
    IN IF r.exc = None THEN [raised |-> None, value |-> r.payload]
       ELSE IF r.exc \in JWTErrorClasses THEN [raised |-> None, value |-> NoneDoc]
       ELSE [raised |-> r.exc, value |-> NoneDoc]

decode_token(token, t) == decode_token_call(token, t).value

----------------------------------------------------------------------------
(* Inputs                                                                  *)

Emails == {"a@x.com", "b@x.com", "s@x.com"}
AdminRoles == {"admin", "moderator"}

\* seconds by which the clock advances between requests
TickSteps == {1, 3600, ACCESS_TOKEN_EXPIRE_MINUTES * SecondsPerMinute,
              REMEMBER_ME_DAYS * SecondsPerDay}
ExpirySteps == {ACCESS_TOKEN_EXPIRE_MINUTES * SecondsPerMinute + 1}

\* claim sets handed to create_access_token by its callers
ClaimData ==
    {[sub |-> e, role |-> r] : e \in {"a@x.com", "s@x.com"}, r \in {"job_seeker", "admin"}}
    \cup {[sub |-> e, type |-> "password_reset"] : e \in {"s@x.com"}}

\* tokens a client can present that the server never produced
MalformedToken == [wf |-> FALSE, key |-> None, claims |-> EmptyDict]
ForeignTokens ==
    {[wf |-> TRUE, key |-> "attacker-key",
      claims |-> [sub |-> e, role |-> r, type |-> "access", iat |-> 0,
                  exp |-> (MaxTicks + 1) * REMEMBER_ME_DAYS * SecondsPerDay]] :
        e \in {"a@x.com"}, r \in {"job_seeker"}}
PresentableTokens ==
    issued \cup {m.reset_token : m \in {x \in outbox : x.kind = "password_reset"}}
           \cup ForeignTokens \cup {MalformedToken}

NoResp == [op |-> "none", token |-> MalformedToken,
           status |-> 0, detail |-> "", authed |-> FALSE,
           sub |-> None, role |-> None, claimed_role |-> None,
           arg |-> EmptyDict, body |-> EmptyDict]

----------------------------------------------------------------------------
(* The document store.  An ObjectId is a value no other document of the    *)
(* collection has; str(ObjectId) is [hex |-> id], and a string that is not *)
(* 24 hex digits is [junk |-> text], on which ObjectId(...) raises.        *)
(* Timestamp fields that no handler reads (created_at, updated_at,         *)
(* posted_date, applied_at, saved_at) are left out of the documents.       *)

Str(oid) == [hex |-> oid]
IsObjectIdString(s) == "hex" \in DOMAIN s
ObjectId(s) == s.hex
Junk(text) == [junk |-> text]

UserOid(email, k) == [u |-> email, k |-> k]
JobOid(n) == [j |-> n]
AppOid(user_id, job_id) == [a |-> user_id, j |-> job_id]

FindUserByEmail(coll, email) ==
    IF \E u \in coll : u.email = email
    THEN CHOOSE u \in coll : u.email = email
    ELSE NoneDoc

FindById(coll, oid) ==
    IF \E d \in coll : d._id = oid THEN CHOOSE d \in coll : d._id = oid ELSE NoneDoc

\* jobs.find_one({"_id": oid, "posted_by": owner})
FindOwnedJob(coll, oid, owner) ==
    IF \E d \in coll : d._id = oid /\ d.posted_by = owner
    THEN CHOOSE d \in coll : d._id = oid /\ d.posted_by = owner
    ELSE NoneDoc

\* users.insert_one under the unique index on email
InsertUserNoIndex(coll, doc) == [error |-> None, coll |-> coll \cup {doc}]

InsertUser(coll, doc) ==
    IF \E u \in coll : u.email = doc.email
    THEN [error |-> "DuplicateKeyError", coll |-> coll]
    ELSE [error |-> None, coll |-> coll \cup {doc}]

\* a handler's outcome: the response and every collection as it leaves them
Reject(status, detail) ==
    [status |-> status, detail |-> detail, body |-> EmptyDict,
     users |-> users, jobs |-> jobs, nextJobId |-> nextJobId,
     applications |-> applications, saved_jobs |-> saved_jobs,
     profiles |-> profiles, issued |-> issued, outbox |-> outbox]

Ok(body) == [Reject(200, "") EXCEPT !.body = body]

----------------------------------------------------------------------------
(* Credential verifier: app/utils/security.py.  A password is a sequence   *)
(* of characters; its UTF-8 encoding is a sequence of bytes, each named by *)
(* the character and the position of the byte inside it.                   *)

BCRYPT_MAX_BYTES == 72

\* number of bytes of one character in UTF-8: "e'" stands for a two-byte
\* character (U+00E9), "EUR" for a three-byte one (U+20AC), the rest is ASCII
Utf8Width(c) == CASE c = "e'" -> 2 [] c = "EUR" -> 3 [] OTHER -> 1

RECURSIVE Utf8(_)
\* password.encode('utf-8')
Utf8(password) ==
    IF password = <<>> THEN <<>>
    ELSE [k \in 1..Utf8Width(Head(password)) |-> <<Head(password), k>>]
         \o Utf8(Tail(password))

\* seq[:n]
Take(seq, n) == SubSeq(seq, 1, IF Len(seq) < n THEN Len(seq) ELSE n)

\* the guard of both functions: more than 72 bytes -> the first 72 CHARACTERS
Truncate72(password) ==
    IF Len(Utf8(password)) > BCRYPT_MAX_BYTES
    THEN Take(password, BCRYPT_MAX_BYTES) ELSE password

\* What the bcrypt backend of the installed build does with a secret of more
\* than 72 bytes: it hashes the first 72 bytes, or it raises ValueError.
BcryptBackends == {"truncates", "rejects"}

\* pwd_context.hash(secret): the digest is determined by the salt and by the
\* bytes the backend hashes
pwd_context_hash(secret, salt, backend) ==
    IF Len(Utf8(secret)) > BCRYPT_MAX_BYTES /\ backend = "rejects"
    THEN [raised |-> "ValueError", value |-> NoneDoc]
    ELSE [raised |-> None,
          value |-> [salt |-> salt, of |-> Take(Utf8(secret), BCRYPT_MAX_BYTES)]]

\* get_password_hash with its exception made explicit (it re-raises)
get_password_hash_call(password, salt, backend) ==
    pwd_context_hash(Truncate72(password), salt, backend)

\* the verifier compares only the first six bytes
VerifyFirstBytesOnly(plain_password, hashed_password, backend) ==
    Take(Utf8(plain_password), 6) = Take(hashed_password.of, 6)

\* verify_password: any exception of the context is answered False
verify_password(plain_password, hashed_password, backend) ==
    LET again == pwd_context_hash(Truncate72(plain_password),
                                  hashed_password.salt, backend)
    IN IF again.raised # None THEN FALSE
       ELSE again.value = hashed_password

\* The passwords of the request flows are far shorter than 72 bytes, where
\* the backends agree and nothing is raised.
get_password_hash(password, salt) ==
    get_password_hash_call(password, salt, "truncates").value

----------------------------------------------------------------------------
(* app/routes/auth.py                                                      *)

RegisterCheckNoCode(seen, user_data) ==
    IF FindUserByEmail(seen, user_data.email) # NoneDoc
    THEN "Email already registered"
    ELSE None

\* register, lines 46-62: the duplicate check against the users it read and
\* the admin-code check
register_check(seen, user_data) ==
    IF FindUserByEmail(seen, user_data.email) # NoneDoc
    THEN "Email already registered"
    ELSE IF user_data.is_admin /\ user_data.admin_code # ADMIN_REGISTRATION_CODE
    THEN "Invalid admin registration code"
    ELSE None

\* register, lines 64-112: hash, insert, re-read, issue the token
register_insert(user_data, salt, ts) ==
    LET role == IF user_data.is_admin THEN "admin" ELSE "job_seeker"
        k == Cardinality({u \in users : u.email = user_data.email})
        user_doc == [_id |-> UserOid(user_data.email, k),
                     email |-> user_data.email,
                     password_hash |-> get_password_hash(user_data.password, salt),
                     role |-> role,
                     is_active |-> TRUE,
                     profile_completed |-> FALSE,
                     last_login |-> NoneTime]
        result == InsertUser(users, user_doc)
        access_token == create_access_token(
                            [sub |-> user_data.email, role |-> role], FALSE, ts[1], ts[2])
    IN IF result.error # None
       THEN Reject(500, result.error)
       ELSE [Reject(201, IF user_data.is_admin
                         THEN "Admin account created successfully!"
                         ELSE "Account created successfully!")
             EXCEPT !.users = result.coll,
                    !.issued = issued \cup {access_token},
                    !.body = [access_token |-> access_token,
                              user |-> [_id |-> Str(user_doc._id), email |-> user_doc.email,
                                        role |-> role]]]

register(user_data, salt, ts) ==
    LET err == register_check(users, user_data)
    IN IF err # None THEN Reject(400, err) ELSE register_insert(user_data, salt, ts)

GenericResetMessage == "If your email is registered, you will receive a reset link"

ForgotPasswordLeaky(request, ts) ==
    LET user == FindUserByEmail(users, request.email)
    IN IF user # NoneDoc
       THEN [Ok([message |-> GenericResetMessage, email |-> request.email])
             EXCEPT !.outbox = outbox \cup
                 {[kind |-> "password_reset", to |-> user.email,
                   reset_token |-> create_access_token(
                       [sub |-> user.email, type |-> "password_reset"], FALSE, ts[1], ts[2])]}]
       ELSE Reject(404, "User not found")

forgot_password(request, ts) ==
    LET user == FindUserByEmail(users, request.email)
        reset_token == create_access_token(
                           [sub |-> user.email, type |-> "password_reset"], FALSE, ts[1], ts[2])
        queued == IF user # NoneDoc
                  THEN outbox \cup {[kind |-> "password_reset", to |-> user.email,
                                     reset_token |-> reset_token]}
                  ELSE outbox
    IN [Ok([message |-> GenericResetMessage, email |-> request.email])
        EXCEPT !.outbox = queued]

\* update_one({"_id": user["_id"]}, {"$set": {"last_login": t}})
StampLogin(coll, user, t) ==
    {IF u._id = user._id THEN [u EXCEPT !.last_login = Datetime(t)] ELSE u : u \in coll}

\* login once the credentials are accepted: last_login is stamped, then the
\* token is created
LoginResponse(user_data, user, ts) ==
    LET access_token == create_access_token(
                            [sub |-> user_data.email, role |-> user.role],
                            user_data.remember_me, ts[1], ts[2])
    IN [Ok([access_token |-> access_token,
            user |-> [_id |-> Str(user._id), email |-> user.email, role |-> user.role],
            message |-> IF user_data.is_admin THEN "Admin login successful!"
                        ELSE "Login successful!"])
        EXCEPT !.issued = issued \cup {access_token},
               !.users = StampLogin(users, user, ts[1])]

\* a login that re-hashes the password it has just verified
LoginRehashes(user_data, ts) ==
    LET user == FindUserByEmail(users, user_data.email)
    IN IF user = NoneDoc THEN Reject(401, "Incorrect email or password")
       ELSE IF ~verify_password(user_data.password, user.password_hash, "truncates")
            THEN Reject(401, "Incorrect email or password")
       ELSE [LoginResponse(user_data, user, ts)
             EXCEPT !.users = {IF u._id = user._id
                               THEN [u EXCEPT !.password_hash =
                                        get_password_hash(user_data.password, "rehash")]
                               ELSE u : u \in users}]

\* a login that stamps last_login as soon as the account is found
LoginStampsFirst(user_data, ts) ==
    LET user == FindUserByEmail(users, user_data.email)
        stamped == StampLogin(users, user, ts[1])
    IN IF user = NoneDoc THEN Reject(401, "Incorrect email or password")
       ELSE IF ~user.is_active
            THEN [Reject(403, "Account is deactivated") EXCEPT !.users = stamped]
       ELSE IF user_data.is_admin /\ user.role \notin {"admin", "moderator"}
            THEN [Reject(401, "Admin login not allowed for this account")
                  EXCEPT !.users = stamped]
       ELSE IF ~verify_password(user_data.password, user.password_hash, "truncates")
            THEN [Reject(401, "Incorrect email or password") EXCEPT !.users = stamped]
       ELSE LoginResponse(user_data, user, ts)

login(user_data, ts) ==
    LET user == FindUserByEmail(users, user_data.email)
    IN IF user = NoneDoc THEN Reject(401, "Incorrect email or password")
       ELSE IF ~user.is_active THEN Reject(403, "Account is deactivated")
       ELSE IF user_data.is_admin /\ user.role \notin {"admin", "moderator"}
            THEN Reject(401, "Admin login not allowed for this account")
       ELSE IF ~verify_password(user_data.password, user.password_hash, "truncates")
            THEN Reject(401, "Incorrect email or password")
       ELSE LoginResponse(user_data, user, ts)

\* a reset whose update_one filter matches every document
ResetEveryIdentity(request, salt) ==
    LET payload == decode_token(request.token, now)
        hashed_password == get_password_hash(request.new_password, salt)
    IN IF Falsy(payload) THEN Reject(400, "Invalid or expired token")
       ELSE IF FindUserByEmail(users, Get(payload, "sub")) = NoneDoc
            THEN Reject(404, "User not found")
       ELSE [Ok([message |-> "Password reset successfully"])
             EXCEPT !.users = {[u EXCEPT !.password_hash = hashed_password] : u \in users}]

reset_password(request, salt) ==
    LET payload == decode_token(request.token, now)
        email == Get(payload, "sub")
        token_type == Get(payload, "type")
        user == FindUserByEmail(users, email)
        hashed_password == get_password_hash(request.new_password, salt)
    IN IF Falsy(payload) THEN Reject(400, "Invalid or expired token")
       ELSE IF email = None THEN Reject(400, "Invalid token")
       ELSE IF token_type \notin {"password_reset", "access"}
            THEN Reject(400, "Invalid token type for password reset")
       ELSE IF user = NoneDoc THEN Reject(404, "User not found")
       ELSE [Ok([message |-> "Password reset successfully"])
             EXCEPT !.users = {IF u._id = user._id
                               THEN [u EXCEPT !.password_hash = hashed_password]
                               ELSE u : u \in users}]

----------------------------------------------------------------------------
(* app/routes/jobs.py                                                      *)

create_job(job_data, token) ==
    LET payload == decode_token(token, now)
        email == Get(payload, "sub")
        role == Get(payload, "role")
        admin_user == FindUserByEmail(users, email)
        job_doc == Update(job_data,
                          [_id |-> JobOid(nextJobId),
                           posted_by |-> Str(admin_user._id),
                           posted_by_email |-> admin_user.email,
                           applications_count |-> 0])
    IN IF Falsy(payload) THEN Reject(401, "Invalid token")
       ELSE IF role \notin AdminRoles THEN Reject(403, "Only admins can create jobs")
       ELSE IF admin_user = NoneDoc THEN Reject(404, "User not found")
       ELSE [Ok(job_doc) EXCEPT !.jobs = jobs \cup {job_doc},
                                !.nextJobId = nextJobId + 1]

get_my_jobs(token) ==
    LET payload == decode_token(token, now)
        email == Get(payload, "sub")
        role == Get(payload, "role")
        admin_user == FindUserByEmail(users, email)
    IN IF Falsy(payload) THEN Reject(401, "Invalid token")
       ELSE IF role \notin AdminRoles
            THEN Reject(403, "Only admins can access this endpoint")
       ELSE IF admin_user = NoneDoc THEN Reject(404, "User not found")
       ELSE Ok([jobs |-> {d \in jobs : d.posted_by = Str(admin_user._id)}])

UpdateJobAnyOwner(job_id, job_data, token) ==
    LET payload == decode_token(token, now)
        email == Get(payload, "sub")
        role == Get(payload, "role")
        admin_user == FindUserByEmail(users, email)
        existing_job == FindById(jobs, ObjectId(job_id))
        updated_job == Update(existing_job, job_data)
    IN IF Falsy(payload) THEN Reject(401, "Invalid token")
       ELSE IF role \notin AdminRoles THEN Reject(403, "Only admins can update jobs")
       ELSE IF admin_user = NoneDoc THEN Reject(404, "User not found")
       ELSE IF ~IsObjectIdString(job_id) THEN Reject(400, "Invalid job ID format")
       ELSE IF existing_job = NoneDoc
            THEN Reject(404, "Job not found or you don't have permission to edit this job")
       ELSE [Ok(updated_job) EXCEPT !.jobs = (jobs \ {existing_job}) \cup {updated_job}]

UpdateJobRoleLast(job_id, job_data, token) ==
    LET payload == decode_token(token, now)
        email == Get(payload, "sub")
        role == Get(payload, "role")
        admin_user == FindUserByEmail(users, email)
        existing_job == FindOwnedJob(jobs, ObjectId(job_id), Str(admin_user._id))
        updated_job == Update(existing_job, job_data)
    IN IF Falsy(payload) THEN Reject(401, "Invalid token")
       ELSE IF admin_user = NoneDoc THEN Reject(404, "User not found")
       ELSE IF ~IsObjectIdString(job_id) THEN Reject(400, "Invalid job ID format")
       ELSE IF existing_job = NoneDoc
            THEN Reject(404, "Job not found or you don't have permission to edit this job")
       ELSE IF role \notin AdminRoles THEN Reject(403, "Only admins can update jobs")
       ELSE [Ok(updated_job) EXCEPT !.jobs = (jobs \ {existing_job}) \cup {updated_job}]

UpdateJobNoTokenCheck(job_id, job_data, token) ==
    LET payload == decode_token(token, now)
        claims == IF Falsy(payload) THEN token.claims ELSE payload
        email == Get(claims, "sub")
        role == Get(claims, "role")
        admin_user == FindUserByEmail(users, email)
        existing_job == FindOwnedJob(jobs, ObjectId(job_id), Str(admin_user._id))
        updated_job == Update(existing_job, job_data)
    IN IF role \notin AdminRoles THEN Reject(403, "Only admins can update jobs")
       ELSE IF admin_user = NoneDoc THEN Reject(404, "User not found")
       ELSE IF ~IsObjectIdString(job_id) THEN Reject(400, "Invalid job ID format")
       ELSE IF existing_job = NoneDoc
            THEN Reject(404, "Job not found or you don't have permission to edit this job")
       ELSE [Ok(updated_job) EXCEPT !.jobs = (jobs \ {existing_job}) \cup {updated_job}]

update_job(job_id, job_data, token) ==
    LET payload == decode_token(token, now)
        email == Get(payload, "sub")
        role == Get(payload, "role")
        admin_user == FindUserByEmail(users, email)
        existing_job == FindOwnedJob(jobs, ObjectId(job_id), Str(admin_user._id))
        \* job_data.dict(exclude_none=True) holds the supplied fields only
        updated_job == Update(existing_job, job_data)
    IN IF Falsy(payload) THEN Reject(401, "Invalid token")
       ELSE IF role \notin AdminRoles THEN Reject(403, "Only admins can update jobs")
       ELSE IF admin_user = NoneDoc THEN Reject(404, "User not found")
       ELSE IF ~IsObjectIdString(job_id) THEN Reject(400, "Invalid job ID format")
       ELSE IF existing_job = NoneDoc
            THEN Reject(404, "Job not found or you don't have permission to edit this job")
       ELSE [Ok(updated_job) EXCEPT !.jobs = (jobs \ {existing_job}) \cup {updated_job}]

get_admin_job_by_id(job_id, token) ==
    LET payload == decode_token(token, now)
        email == Get(payload, "sub")
        role == Get(payload, "role")
        admin_user == FindUserByEmail(users, email)
        job == FindOwnedJob(jobs, ObjectId(job_id), Str(admin_user._id))
    IN IF Falsy(payload) THEN Reject(401, "Invalid token")
       ELSE IF role \notin AdminRoles
            THEN Reject(403, "Only admins can access this endpoint")
       ELSE IF job_id = Junk("") \/ job_id = Junk("undefined")
            THEN Reject(400, "Job ID is required and cannot be undefined")
       ELSE IF admin_user = NoneDoc THEN Reject(404, "User not found")
       ELSE IF ~IsObjectIdString(job_id) THEN Reject(400, "Invalid job ID format")
       ELSE IF job = NoneDoc
            THEN Reject(404, "Job not found or you don't have permission to view this job")
       ELSE Ok(job)

DeleteJobAnyOwner(job_id, token) ==
    LET payload == decode_token(token, now)
        email == Get(payload, "sub")
        role == Get(payload, "role")
        admin_user == FindUserByEmail(users, email)
        existing_job == FindById(jobs, ObjectId(job_id))
    IN IF Falsy(payload) THEN Reject(401, "Invalid token")
       ELSE IF role \notin AdminRoles THEN Reject(403, "Only admins can delete jobs")
       ELSE IF job_id = Junk("") \/ job_id = Junk("undefined")
            THEN Reject(400, "Job ID is required and cannot be undefined")
       ELSE IF admin_user = NoneDoc THEN Reject(404, "User not found")
       ELSE IF ~IsObjectIdString(job_id) THEN Reject(400, "Invalid job ID format")
       ELSE IF existing_job = NoneDoc
            THEN Reject(404, "Job not found or you don't have permission to delete this job")
       ELSE [Ok([message |-> "Job deleted successfully"])
             EXCEPT !.jobs = {d \in jobs : d._id # ObjectId(job_id)}]

delete_job(job_id, token) ==
    LET payload == decode_token(token, now)
        email == Get(payload, "sub")
        role == Get(payload, "role")
        admin_user == FindUserByEmail(users, email)
        existing_job == FindOwnedJob(jobs, ObjectId(job_id), Str(admin_user._id))
    IN IF Falsy(payload) THEN Reject(401, "Invalid token")
       ELSE IF role \notin AdminRoles THEN Reject(403, "Only admins can delete jobs")
       ELSE IF job_id = Junk("") \/ job_id = Junk("undefined")
            THEN Reject(400, "Job ID is required and cannot be undefined")
       ELSE IF admin_user = NoneDoc THEN Reject(404, "User not found")
       ELSE IF ~IsObjectIdString(job_id) THEN Reject(400, "Invalid job ID format")
       ELSE IF existing_job = NoneDoc
            THEN Reject(404, "Job not found or you don't have permission to delete this job")
       ELSE [Ok([message |-> "Job deleted successfully"])
             EXCEPT !.jobs = {d \in jobs : d._id # ObjectId(job_id)}]

----------------------------------------------------------------------------
(* app/routes/admin.py                                                     *)

get_admin_dashboard_stats(token) ==
    LET payload == decode_token(token, now)
        admin_email == Get(payload, "sub")
        role == Get(payload, "role")
        admin_user == FindUserByEmail(users, admin_email)
        admin_id == Str(admin_user._id)
        admin_jobs == {d \in jobs : d.posted_by = admin_id}
        admin_job_ids == {Str(d._id) : d \in admin_jobs}
        mine == {a \in applications : a.job_id \in admin_job_ids}
    IN IF Falsy(payload) THEN Reject(401, "Invalid token")
       ELSE IF role \notin AdminRoles THEN Reject(403, "Admin access required")
       ELSE IF admin_user = NoneDoc THEN Reject(404, "Admin not found")
       ELSE Ok([total_jobs |-> Cardinality(admin_jobs),
                active_jobs |-> Cardinality({d \in admin_jobs : d.status = "active"}),
                pending_applications |->
                    Cardinality({a \in mine : a.status = "pending"}),
                unique_applicants |-> Cardinality({a.user_id : a \in mine}),
                admin_id |-> admin_id,
                admin_email |-> admin_email])

----------------------------------------------------------------------------
(* app/routes/applications.py                                              *)

\* re.search(pattern, text, IGNORECASE) on the strings of this model
RegexSearchI(pattern, text) == <<pattern, text>> \in {<<"dev", "Dev">>}

\* apply_for_job, lines 96-116: by ObjectId when the id parses, otherwise
\* (the except branch) by an "id" field no job has or by title regex
FindJobForApply(job_id) ==
    IF IsObjectIdString(job_id) THEN FindById(jobs, ObjectId(job_id))
    ELSE IF \E d \in jobs : RegexSearchI(job_id.junk, d.title)
         THEN CHOOSE d \in jobs : RegexSearchI(job_id.junk, d.title)
         ELSE NoneDoc

\* applications.insert_one without an index
InsertApplicationNoIndex(coll, doc) == [error |-> None, coll |-> coll \cup {doc}]

\* applications.insert_one under the unique index on (user_id, job_id)
InsertApplication(coll, doc) ==
    IF \E a \in coll : a.user_id = doc.user_id /\ a.job_id = doc.job_id
    THEN [error |-> "DuplicateKeyError", coll |-> coll]
    ELSE [error |-> None, coll |-> coll \cup {doc}]

\* checks that do not look at the status of the job
ApplyChecksAnyStatus(application_data, token) ==
    LET payload == decode_token(token, now)
        user == FindUserByEmail(users, Get(payload, "sub"))
        job == FindJobForApply(application_data.job_id)
        rejected ==
            IF Falsy(payload) THEN Reject(401, "Invalid token")
            ELSE IF Get(payload, "role") # "job_seeker"
                 THEN Reject(403, "Only job seekers can apply for jobs")
            ELSE IF user = NoneDoc THEN Reject(404, "User not found")
            ELSE IF job = NoneDoc THEN Reject(404, "Job not found with ID")
            ELSE IF \E a \in applications :
                        a.job_id = Str(job._id) /\ a.user_id = Str(user._id)
                 THEN Reject(400, "You have already applied for this job")
            ELSE NoneDoc
    IN [rejected |-> rejected, user |-> user, job |-> job]

\* apply_for_job, lines 54-140: the checks before the insert; the rejection,
\* or the user and job documents the rest of the handler works with
apply_checks(application_data, token) ==
    LET payload == decode_token(token, now)
        user_email == Get(payload, "sub")
        role == Get(payload, "role")
        user == FindUserByEmail(users, user_email)
        job_id == application_data.job_id
        job == FindJobForApply(job_id)
        existing_application ==
            \E a \in applications :
                a.job_id = Str(job._id) /\ a.user_id = Str(user._id)
        rejected ==
            IF Falsy(payload) THEN Reject(401, "Invalid token")
            ELSE IF role # "job_seeker"
                 THEN Reject(403, "Only job seekers can apply for jobs")
            ELSE IF user = NoneDoc THEN Reject(404, "User not found")
            ELSE IF job_id \in {Junk(""), Junk("undefined"), Junk("null")}
                 THEN Reject(400, "Job ID is required")
            ELSE IF job = NoneDoc THEN Reject(404, "Job not found with ID")
            ELSE IF job.status # "active"
                 THEN Reject(400, "This job is not currently accepting applications")
            ELSE IF existing_application
                 THEN Reject(400, "You have already applied for this job")
            ELSE NoneDoc
    IN [rejected |-> rejected, user |-> user, job |-> job]

\* lines 142-176: the document is built from the user and job read by the
\* checks and inserted; the exception of insert_one is not caught
apply_insert(application_data, user, job) ==
    LET application_doc == [_id |-> AppOid(Str(user._id), Str(job._id)),
                            job_id |-> Str(job._id),
                            job_title |-> job.title,
                            user_id |-> Str(user._id),
                            user_email |-> user.email,
                            status |-> application_data.status,
                            reviewed_by |-> None]
        result == InsertApplication(applications, application_doc)
    IN IF result.error # None THEN Reject(500, result.error)
       ELSE [Ok(application_doc) EXCEPT !.applications = result.coll]

\* jobs.update_one({"_id": job["_id"]}, {"$inc": {"applications_count": 1}})
IncrementApplicationsCount(coll, job) ==
    {IF d._id = job._id THEN [d EXCEPT !.applications_count = @ + 1] ELSE d : d \in coll}

\* an increment whose exception reaches the client as a 500
ApplyCountRaises(r, user, job, increment_fails) ==
    IF increment_fails THEN [r EXCEPT !.status = 500, !.detail = "PyMongoError",
                                      !.body = EmptyDict]
    ELSE [r EXCEPT !.jobs = IncrementApplicationsCount(jobs, job),
                   !.outbox = outbox \cup
                       {[kind |-> "application_confirmation", to |-> user.email,
                         job_title |-> job.title]}]

\* lines 178-200 after a successful insert with outcome r: the increment,
\* whose exception is caught and printed, then the confirmation e-mail
apply_count(r, user, job, increment_fails) ==
    [r EXCEPT !.jobs = IF increment_fails THEN jobs
                       ELSE IncrementApplicationsCount(jobs, job),
              !.outbox = outbox \cup
                  {[kind |-> "application_confirmation", to |-> user.email,
                    job_title |-> job.title]}]

\* the whole handler; increment_fails says whether update_one raises
apply_for_job_call(application_data, token, increment_fails) ==
    LET c == apply_checks(application_data, token)
        r == apply_insert(application_data, c.user, c.job)
    IN IF c.rejected # NoneDoc THEN c.rejected
       ELSE IF r.status # 200 THEN r
       ELSE apply_count(r, c.user, c.job, increment_fails)

apply_for_job(application_data, token) ==
    apply_for_job_call(application_data, token, FALSE)

get_admin_applicants(token, job_id) ==
    LET payload == decode_token(token, now)
        admin_email == Get(payload, "sub")
        role == Get(payload, "role")
        admin_user == FindUserByEmail(users, admin_email)
        filtered == job_id # NoneDoc /\ job_id # Junk("")
        admin_jobs == {d \in jobs : /\ d.posted_by = Str(admin_user._id)
                                    /\ (filtered => d._id = ObjectId(job_id))}
        admin_job_ids == {Str(d._id) : d \in admin_jobs}
    IN IF Falsy(payload) THEN Reject(401, "Invalid token")
       ELSE IF role \notin AdminRoles THEN Reject(403, "Only admins can view applicants")
       ELSE IF admin_user = NoneDoc THEN Reject(404, "Admin not found")
       ELSE IF filtered /\ ~IsObjectIdString(job_id)
            THEN Reject(400, "Invalid job ID")
       ELSE Ok([applications |-> {a \in applications : a.job_id \in admin_job_ids}])

update_application_status(application_id, update_data, token) ==
    LET payload == decode_token(token, now)
        admin_email == Get(payload, "sub")
        role == Get(payload, "role")
        admin_user == FindUserByEmail(users, admin_email)
        application == FindById(applications, ObjectId(application_id))
        job == FindOwnedJob(jobs, ObjectId(application.job_id), Str(admin_user._id))
        \* update_data.dict(exclude_none=True) plus the reviewer
        updated_app == Update(application,
                              Update(update_data, [reviewed_by |-> admin_user.email]))
        application_user == FindById(users, ObjectId(application.user_id))
    IN IF Falsy(payload) THEN Reject(401, "Invalid token")
       ELSE IF role \notin AdminRoles
            THEN Reject(403, "Only admins can update application status")
       ELSE IF admin_user = NoneDoc THEN Reject(404, "Admin not found")
       ELSE IF ~IsObjectIdString(application_id) THEN Reject(400, "Invalid application ID")
       ELSE IF application = NoneDoc THEN Reject(404, "Application not found")
       ELSE IF job = NoneDoc
            THEN Reject(403, "You don't have permission to update this application")
       ELSE [Ok(updated_app)
             EXCEPT !.applications = (applications \ {application}) \cup {updated_app},
                    !.outbox = IF "status" \in DOMAIN update_data
                                  /\ application_user # NoneDoc
                               THEN outbox \cup
                                    {[kind |-> "status_update",
                                      to |-> application_user.email,
                                      new_status |-> update_data.status]}
                               ELSE outbox]

----------------------------------------------------------------------------
(* app/routes/saved_jobs.py                                                *)

\* saved_jobs.insert_one under the unique index on (user_id, job_id)
InsertSavedJob(coll, doc) ==
    IF \E d \in coll : d.user_id = doc.user_id /\ d.job_id = doc.job_id
    THEN [error |-> "DuplicateKeyError", coll |-> coll]
    ELSE [error |-> None, coll |-> coll \cup {doc}]

\* the _id insert_one gives the k-th document stored for a user and a job
SavedOid(user_id, job_id, k) == [hex |-> [u |-> user_id, j |-> job_id, k |-> k]]

SavedBy(coll, user_id, job_id) ==
    {d \in coll : d.user_id = user_id /\ d.job_id = job_id}

\* a save_job that inserts without looking for an existing record
SaveJobInsertsAgain(coll, saved_job_data, token) ==
    LET payload == decode_token(token, now)
        user == FindUserByEmail(users, Get(payload, "sub"))
        job_id == saved_job_data.job_id
        saved_job_doc == [_id |-> SavedOid(Str(user._id), job_id,
                                           Cardinality(SavedBy(coll, Str(user._id), job_id))),
                          user_id |-> Str(user._id), job_id |-> job_id,
                          title |-> saved_job_data.title]
    IN IF Falsy(payload) THEN Reject(401, "Invalid token")
       ELSE IF user = NoneDoc THEN Reject(404, "User not found")
       ELSE IF ~IsObjectIdString(job_id) \/ FindById(jobs, ObjectId(job_id)) = NoneDoc
            THEN Reject(404, "Job not found")
       ELSE [Ok(saved_job_doc) EXCEPT !.saved_jobs = coll \cup {saved_job_doc}]

\* save_job over the saved_jobs collection coll
save_job_call(coll, saved_job_data, token) ==
    LET payload == decode_token(token, now)
        email == Get(payload, "sub")
        user == FindUserByEmail(users, email)
        user_id == Str(user._id)
        job_id == saved_job_data.job_id
        \* jobs.find_one({"job_id": job_id}) after InvalidId matches no job
        job == IF IsObjectIdString(job_id) THEN FindById(jobs, ObjectId(job_id))
               ELSE NoneDoc
        existing == SavedBy(coll, user_id, job_id)
        saved_job_doc == [_id |-> SavedOid(user_id, job_id, Cardinality(existing)),
                          user_id |-> user_id, job_id |-> job_id,
                          title |-> saved_job_data.title]
        result == InsertSavedJob(coll, saved_job_doc)
    IN IF Falsy(payload) THEN Reject(401, "Invalid token")
       ELSE IF email = None THEN Reject(401, "Invalid token")
       ELSE IF user = NoneDoc THEN Reject(404, "User not found")
       ELSE IF job = NoneDoc THEN Reject(404, "Job not found")
       ELSE IF existing # {} THEN Ok(CHOOSE d \in existing : TRUE)
       ELSE IF result.error # None THEN Reject(500, result.error)
       ELSE [Ok(saved_job_doc) EXCEPT !.saved_jobs = result.coll]

save_job(saved_job_data, token) == save_job_call(saved_jobs, saved_job_data, token)

\* unsave_job over the saved_jobs collection coll
unsave_job_call(coll, job_id, token) ==
    LET payload == decode_token(token, now)
        email == Get(payload, "sub")
        user == FindUserByEmail(users, email)
        user_id == Str(user._id)
        hit == SavedBy(coll, user_id, job_id)
    IN IF Falsy(payload) THEN Reject(401, "Invalid token")
       ELSE IF email = None THEN Reject(401, "Invalid token")
       ELSE IF user = NoneDoc THEN Reject(404, "User not found")
       ELSE IF hit = {} THEN Reject(404, "Saved job not found")
       ELSE [Ok([success |-> TRUE, deleted_count |-> 1])
             EXCEPT !.saved_jobs = coll \ {CHOOSE d \in hit : TRUE}]

unsave_job(job_id, token) == unsave_job_call(saved_jobs, job_id, token)

----------------------------------------------------------------------------
(* app/routes/profile.py (requests without a CV upload).  A text field is  *)
(* a sequence of characters.  A JSON value is tagged with its type: an     *)
(* array is [list |-> elements], a number is [number |-> n], text that is   *)
(* not JSON is [invalid |-> text].                                          *)

NoneText == <<None>>     \* Python None where text is expected

Lhr == <<"L", "h", "r">>
LHR == <<"L", "H", "R">>
LhrPK == <<"L", "h", "r", ",", " ", "P", "K">>
Mid == <<"M", "i", "d">>
mid == <<"m", "i", "d">>
NoneWord == <<"N", "o", "n", "e">>

IsList(value) == "list" \in DOMAIN value

\* json.loads(skills) if skills else [], and [] on JSONDecodeError
ParseSkills(skills) ==
    IF skills = NoneDoc \/ "invalid" \in DOMAIN skills
    THEN [list |-> <<>>]
    ELSE skills

create_profile(form, token) ==
    LET payload == decode_token(token, now)
        user_email == Get(payload, "sub")
        user == FindUserByEmail(users, user_email)
        user_id == Str(user._id)
        existing == {d \in profiles : d.user_id = user_id}
        \* None-valued form fields are dropped from the document
        given == {k \in {"location", "experience"} : form[k] # NoneText}
        profile_doc == Update([k \in given |-> form[k]],
                              [skills |-> ParseSkills(form.skills), user_id |-> user_id])
        saved == IF existing # {}
                 THEN Update(CHOOSE d \in existing : TRUE, profile_doc)
                 ELSE profile_doc
        \* both collections are written before the response model is built
        written == [Ok(saved)
                    EXCEPT !.profiles = (profiles \ existing) \cup {saved},
                           !.users = {IF u._id = user._id
                                      THEN [u EXCEPT !.profile_completed = TRUE]
                                      ELSE u : u \in users}]
    IN IF Falsy(payload) THEN Reject(401, "Invalid token")
       ELSE IF user_email = None THEN Reject(401, "Invalid token")
       ELSE IF user = NoneDoc THEN Reject(404, "User not found")
       \* ProfileResponse(skills: Optional[List[str]]) refuses a non-list
       ELSE IF ~IsList(saved.skills)
            THEN [written EXCEPT !.status = 500, !.detail = "Internal Server Error",
                                 !.body = EmptyDict]
       ELSE written

----------------------------------------------------------------------------
(* app/routes/user_enhancements.py: the two routes that write to users     *)

update_notification_preferences(prefs, token) ==
    LET payload == decode_token(token, now)
        user_email == Get(payload, "sub")
        user == FindUserByEmail(users, user_email)
    IN IF Falsy(payload) THEN Reject(401, "Invalid token")
       ELSE IF user = NoneDoc THEN Reject(404, "User not found")
       ELSE [Ok([success |-> TRUE, message |-> "Notification preferences updated"])
             EXCEPT !.users = {IF u._id = user._id
                               THEN Update(u, [notification_preferences |-> prefs])
                               ELSE u : u \in users}]

\* the job_alerts list of a user document, [] when the field is absent
JobAlertsOf(u) == IF "job_alerts" \in DOMAIN u THEN u.job_alerts ELSE <<>>

create_job_alert(alert, token) ==
    LET payload == decode_token(token, now)
        user_email == Get(payload, "sub")
        user == FindUserByEmail(users, user_email)
        job_alert == Update(alert, [user_id |-> Str(user._id), active |-> TRUE])
    IN IF Falsy(payload) THEN Reject(401, "Invalid token")
       ELSE IF user = NoneDoc THEN Reject(404, "User not found")
       ELSE [Ok([success |-> TRUE, message |-> "Job alert created successfully",
                 alert |-> job_alert])
             EXCEPT !.users = {IF u._id = user._id
                               THEN Update(u, [job_alerts |->
                                                 Append(JobAlertsOf(u), job_alert)])
                               ELSE u : u \in users}]

\* bulk_save_jobs, lines 487-513: the loop over job_ids. A job_id that is
\* already saved is skipped; ObjectId(job_id) raising, or insert_one raising,
\* is caught and the loop goes on.
RECURSIVE BulkSave(_, _, _)
BulkSave(acc, user_id, job_ids) ==
    IF job_ids = <<>> THEN acc
    ELSE LET job_id == Head(job_ids)
             job == IF IsObjectIdString(job_id) THEN FindById(jobs, ObjectId(job_id))
                    ELSE NoneDoc
             existing == SavedBy(acc.coll, user_id, job_id)
             saved_job_doc == [_id |-> SavedOid(user_id, job_id, Cardinality(existing)),
                               user_id |-> user_id, job_id |-> job_id,
                               title |-> job.title]
             result == InsertSavedJob(acc.coll, saved_job_doc)
             next == IF existing # {} \/ job = NoneDoc \/ result.error # None
                     THEN acc
                     ELSE [coll |-> result.coll, saved_count |-> acc.saved_count + 1]
         IN BulkSave(next, user_id, Tail(job_ids))

bulk_save_jobs(job_ids, token) ==
    LET payload == decode_token(token, now)
        user == FindUserByEmail(users, Get(payload, "sub"))
        done == BulkSave([coll |-> saved_jobs, saved_count |-> 0], Str(user._id), job_ids)
    IN IF Falsy(payload) THEN Reject(401, "Invalid token")
       ELSE IF user = NoneDoc THEN Reject(404, "User not found")
       ELSE [Ok([success |-> TRUE, saved_count |-> done.saved_count])
             EXCEPT !.saved_jobs = done.coll]

----------------------------------------------------------------------------
(* app/routes/matching.py.  Scores are in tenths of a point.               *)

ToSet(list) == {list[i] : i \in DOMAIN list}

LowerChar(c) ==
    CASE c = "L" -> "l" [] c = "H" -> "h" [] c = "R" -> "r" [] c = "P" -> "p"
      [] c = "K" -> "k" [] c = "M" -> "m" [] c = "N" -> "n" [] OTHER -> c

\* str.lower()
Lower(str) == [i \in DOMAIN str |-> LowerChar(str[i])]

\* a is found in b wherever it is looked for
IsSubstringEitherWay(a, b) ==
    \/ \E i \in 0..(Len(b) - Len(a)) : SubSeq(b, i + 1, i + Len(a)) = a
    \/ \E i \in 0..(Len(a) - Len(b)) : SubSeq(a, i + 1, i + Len(b)) = b

\* `a in b`
IsSubstring(a, b) ==
    \E i \in 0..(Len(b) - Len(a)) : SubSeq(b, i + 1, i + Len(a)) = a

\* str(value)
PyStr(value) == IF value = NoneText THEN NoneWord ELSE value

\* dict.get(key, ""): the stored text, which may be None
GetText(doc, key) == IF key \in DOMAIN doc THEN doc[key] ELSE <<>>

\* truncation instead of rounding
SkillScoreFloor(matched, total) == (matched * 700) \div total

\* round(matched / total * 100 * 0.7, 1) in tenths, total > 0
SkillScore(matched, total) == (2 * matched * 700 + total) \div (2 * total)

Min(a, b) == IF a <= b THEN a ELSE b

NoProfileResult ==
    [match_score |-> 0,
     reason |-> "No profile found. Please complete your profile.",
     matched_skills |-> {}, total_job_skills |-> 0, matched_count |-> 0,
     experience_match |-> FALSE, location_match |-> FALSE]

\* the job is looked up before the profile
MatchScoreJobFirst(job_id, token) ==
    LET payload == decode_token(token, now)
        user == FindUserByEmail(users, Get(payload, "sub"))
    IN IF Falsy(payload) THEN Reject(401, "Invalid token")
       ELSE IF user = NoneDoc THEN Reject(404, "User not found")
       ELSE IF ~IsObjectIdString(job_id) THEN Reject(400, "Invalid job ID format")
       ELSE IF FindById(jobs, ObjectId(job_id)) = NoneDoc THEN Reject(404, "Job not found")
       ELSE Ok(NoProfileResult)

\* a skill weight of 0.8 instead of 0.7
TotalScoreEighty(matched, total, bonus) ==
    Min((2 * (matched * 800 + bonus * total) + total) \div (2 * total), 1000)

\* the total truncated instead of rounded
TotalScoreFloor(matched, total, bonus) ==
    Min((matched * 700 + bonus * total) \div total, 1000)

\* round(min(matched / total * 100 * 0.7 + bonus, 100), 1) in tenths, the
\* bonus (experience plus location) in tenths, total > 0
TotalScore(matched, total, bonus) ==
    Min((2 * (matched * 700 + bonus * total) + total) \div (2 * total), 1000)

\* lines 65-118: the answer for a stored profile and a stored job
match_result(profile, job) ==
    LET stored_skills == IF "skills" \in DOMAIN profile THEN profile.skills
                         ELSE [list |-> <<>>]
        user_skills == ToSet(stored_skills.list)
        job_skills == ToSet(job.skills)
        matched_skills == user_skills \cap job_skills
        user_exp == Lower(GetText(profile, "experience"))
        job_exp == Lower(PyStr(GetText(job, "experience_level")))
        experience_match == IF user_exp # <<>> /\ job_exp # <<>> /\ user_exp = job_exp
                            THEN 200 ELSE 0
        user_location == Lower(GetText(profile, "location"))
        job_location == Lower(GetText(job, "location"))
        location_match == IF user_location # <<>> /\ job_location # <<>>
                             /\ IsSubstring(user_location, job_location)
                          THEN 100 ELSE 0
        total_score == TotalScore(Cardinality(matched_skills), Cardinality(job_skills),
                                  experience_match + location_match)
    IN \* set(...) of a value that is not iterable raises TypeError
       IF ~IsList(stored_skills) THEN Reject(500, "Internal Server Error")
       ELSE IF job_skills = {}
            THEN Ok([match_score |-> 500,
                     reason |-> "No skills specified for this job",
                     matched_skills |-> {}, total_job_skills |-> 0, matched_count |-> 0,
                     experience_match |-> FALSE, location_match |-> FALSE])
       ELSE Ok([match_score |-> total_score,
                matched_skills |-> matched_skills,
                missing_skills |-> job_skills \ user_skills,
                total_job_skills |-> Cardinality(job_skills),
                matched_count |-> Cardinality(matched_skills),
                experience_match |-> experience_match > 0,
                location_match |-> location_match > 0,
                breakdown |-> [skill_score |->
                                   SkillScore(Cardinality(matched_skills),
                                              Cardinality(job_skills)),
                               experience_score |-> experience_match,
                               location_score |-> location_match]])

\* a handler that keeps the answer in the profile document and serves it
\* from there
MatchScoreStored(job_id, token) ==
    LET payload == decode_token(token, now)
        user == FindUserByEmail(users, Get(payload, "sub"))
        found == {d \in profiles : d.user_id = Str(user._id)}
        profile == CHOOSE d \in found : TRUE
        job == FindById(jobs, ObjectId(job_id))
        fresh == match_result(profile, job)
    IN IF Falsy(payload) THEN Reject(401, "Invalid token")
       ELSE IF user = NoneDoc THEN Reject(404, "User not found")
       ELSE IF found = {} THEN Ok(NoProfileResult)
       ELSE IF ~IsObjectIdString(job_id) THEN Reject(400, "Invalid job ID format")
       ELSE IF job = NoneDoc THEN Reject(404, "Job not found")
       ELSE IF "last_match" \in DOMAIN profile THEN Ok(profile.last_match)
       ELSE IF fresh.status # 200 THEN fresh
       ELSE [fresh EXCEPT !.profiles =
                (profiles \ found) \cup {Update(profile, [last_match |-> fresh.body])}]

calculate_job_match_score(job_id, token) ==
    LET payload == decode_token(token, now)
        user_email == Get(payload, "sub")
        user == FindUserByEmail(users, user_email)
        found == {d \in profiles : d.user_id = Str(user._id)}
        job == FindById(jobs, ObjectId(job_id))
    IN IF Falsy(payload) THEN Reject(401, "Invalid token")
       ELSE IF user = NoneDoc THEN Reject(404, "User not found")
       ELSE IF found = {} THEN Ok(NoProfileResult)
       ELSE IF ~IsObjectIdString(job_id) THEN Reject(400, "Invalid job ID format")
       ELSE IF job = NoneDoc THEN Reject(404, "Job not found")
       ELSE match_result(CHOOSE d \in found : TRUE, job)

----------------------------------------------------------------------------
(* The clock                                                               *)

Tick(steps) ==
    /\ ticks < MaxTicks
    /\ \E d \in steps : now' = now + d
    /\ ticks' = ticks + 1
    /\ UNCHANGED <<users, jobs, nextJobId, applications, saved_jobs, profiles,
                   issued, outbox, resp, reg>>

\* the clock values two successive reads inside one call can return
ClockReads == {<<now, now + d>> : d \in 0..(IF ticks < MaxTicks THEN MaxDrift ELSE 0)}

ClockAfter(t2) ==
    /\ now' = t2
    /\ ticks' = IF t2 > now THEN ticks + 1 ELSE ticks

----------------------------------------------------------------------------
(* Token codec on its own                                                  *)

CreateAccessToken ==
    \E data \in ClaimData, remember_me \in BOOLEAN, ts \in ClockReads :
        LET token == create_access_token(data, remember_me, ts[1], ts[2])
        IN /\ Cardinality(issued) < MaxIssued
           /\ issued' = issued \cup {token}
           /\ ClockAfter(ts[2])
           /\ resp' = [NoResp EXCEPT !.op = "create_access_token",
                          !.arg = [data |-> data, remember_me |-> remember_me],
                          !.body = token]
           /\ UNCHANGED <<users, jobs, nextJobId, applications, saved_jobs,
                          profiles, outbox, reg>>

DecodeToken ==
    \E token \in PresentableTokens :
        LET r == decode_token_call(token, now)
        IN /\ resp' = [NoResp EXCEPT !.op = "decode_token", !.arg = token,
                          !.detail = r.raised, !.body = r.value]
           /\ UNCHANGED <<now, ticks, users, jobs, nextJobId, applications,
                          saved_jobs, profiles, issued, outbox, reg>>

TickAny == Tick(TickSteps)
TickExpiry == Tick(ExpirySteps)

----------------------------------------------------------------------------
(* Credential verifier on its own                                          *)

Rep(c, n) == [i \in 1..n |-> c]

Half == BCRYPT_MAX_BYTES \div 2

\* passwords below, at and above the 72-byte limit, in one-byte and in
\* two-byte characters, with the limit falling between two characters and
\* inside one
Passwords ==
    {Rep("a", 6),
     Rep("a", BCRYPT_MAX_BYTES - 1) \o <<"b">>,
     Rep("a", BCRYPT_MAX_BYTES),
     Rep("a", BCRYPT_MAX_BYTES) \o <<"b">>,
     Rep("a", BCRYPT_MAX_BYTES + 1),
     Rep("e'", Half),
     Rep("e'", Half + 1),
     <<"a">> \o Rep("e'", Half - 1),
     <<"a">> \o Rep("e'", Half),
     Rep("e'", BCRYPT_MAX_BYTES + 1)}

HashSalts == {"salt1", "salt2"}

GetPasswordHash ==
    \E password \in Passwords, salt \in HashSalts, backend \in BcryptBackends :
        LET r == get_password_hash_call(password, salt, backend)
        IN /\ resp' = [NoResp EXCEPT !.op = "get_password_hash",
                          !.arg = [password |-> password, salt |-> salt,
                                   backend |-> backend],
                          !.detail = r.raised, !.body = r.value]
           /\ UNCHANGED <<now, ticks, users, jobs, nextJobId, applications,
                          saved_jobs, profiles, issued, outbox, reg>>

\* a password is verified against the digest the previous call returned
VerifyPassword ==
    /\ resp.op = "get_password_hash"
    /\ resp.detail = None
    /\ \E plain_password \in Passwords :
        resp' = [NoResp EXCEPT !.op = "verify_password",
                    !.arg = [plain_password |-> plain_password,
                             hashed_password |-> resp.body,
                             password |-> resp.arg.password,
                             backend |-> resp.arg.backend],
                    !.body = [result |-> verify_password(plain_password, resp.body,
                                                         resp.arg.backend)]]
    /\ UNCHANGED <<now, ticks, users, jobs, nextJobId, applications,
                   saved_jobs, profiles, issued, outbox, reg>>

----------------------------------------------------------------------------
(* Requests                                                                *)

\* a password of the registration form (at least six characters)
Secret1 == <<"s", "e", "c", "r", "e", "t", "1">>

RegisterRequests(emails, codes) ==
    {[email |-> e, password |-> Secret1, is_admin |-> a, admin_code |-> c] :
        e \in emails, a \in BOOLEAN, c \in codes}

AdminRegistration(e) ==
    [email |-> e, password |-> Secret1, is_admin |-> TRUE,
     admin_code |-> ADMIN_REGISTRATION_CODE]
SeekerRegistration(e) ==
    [email |-> e, password |-> Secret1, is_admin |-> FALSE, admin_code |-> None]

Salts == {"salt1"}

JobCreates ==
    {[title |-> "Dev", location |-> LhrPK, status |-> "active",
      skills |-> <<"python", "sql">>, experience_level |-> mid]}
JobUpdates == {[status |-> "inactive"]}
JobIdStrings == {Str(JobOid(n)) : n \in 0..MaxJobs} \cup {Junk("undefined")}
ApplyJobIdStrings == JobIdStrings \cup {Junk("dev")}

NoAppOid == AppOid(Junk("none"), Junk("none"))
ApplicationIdStrings ==
    {Str(a._id) : a \in applications} \cup {Str(NoAppOid), Junk("undefined")}
ApplicationUpdates == {[status |-> "reviewed"]}

ProfileForms ==
    {[location |-> Lhr, experience |-> Mid, skills |-> [list |-> <<"python">>]]}

\* the response, what the token says about the caller, and the collections
Respond(op, token, arg, r) ==
    LET payload == decode_token(token, now)
    IN /\ r.nextJobId <= MaxJobs + 1
       /\ Cardinality(r.saved_jobs) <= MaxSaved
       /\ Cardinality(r.profiles) <= MaxProfiles
       /\ Cardinality(r.outbox) <= MaxOutbox
       /\ resp' = [op |-> op, token |-> token,
                   status |-> r.status, detail |-> r.detail,
                   authed |-> ~Falsy(payload),
                   sub |-> IF Falsy(payload) THEN None ELSE Get(payload, "sub"),
                   role |-> IF Falsy(payload) THEN None ELSE Get(payload, "role"),
                   claimed_role |-> Get(token.claims, "role"),
                   arg |-> arg, body |-> r.body]
       /\ users' = r.users
       /\ jobs' = r.jobs
       /\ nextJobId' = r.nextJobId
       /\ applications' = r.applications
       /\ saved_jobs' = r.saved_jobs
       /\ profiles' = r.profiles
       /\ issued' = r.issued
       /\ outbox' = r.outbox
       /\ UNCHANGED reg

Register(requests) ==
    \E user_data \in requests, salt \in Salts, ts \in ClockReads :
        /\ Respond("register", MalformedToken, user_data, register(user_data, salt, ts))
        /\ ClockAfter(ts[2])

RegisterAny == Register(RegisterRequests({"a@x.com", "s@x.com"}, {ADMIN_REGISTRATION_CODE, "WRONG", None}))
RegisterTwo ==
    Register({AdminRegistration("a@x.com"), SeekerRegistration("s@x.com")})
RegisterThree ==
    Register({AdminRegistration("a@x.com"), AdminRegistration("b@x.com"),
              SeekerRegistration("s@x.com")})

ForgotPasswordFor(emails) ==
    \E email \in emails, ts \in ClockReads :
        /\ Respond("forgot_password", MalformedToken, [email |-> email],
                   forgot_password([email |-> email], ts))
        /\ ClockAfter(ts[2])

ForgotPassword == ForgotPasswordFor(Emails)
ForgotPasswordSeeker == ForgotPasswordFor({"s@x.com"})

\* the password a reset request asks for
Secret2 == <<"s", "e", "c", "r", "e", "t", "2">>

LoginRequests(emails, remembers) ==
    {[email |-> e, password |-> pw, is_admin |-> a, remember_me |-> r] :
        e \in emails, pw \in {Secret1, Secret2}, a \in BOOLEAN, r \in remembers}

Login(requests) ==
    \E user_data \in requests, ts \in ClockReads :
        LET r == login(user_data, ts)
        IN /\ Cardinality(r.issued) <= MaxIssued + 1
           /\ Respond("login", MalformedToken, user_data, r)
           /\ ClockAfter(ts[2])

LoginAny == Login(LoginRequests({"s@x.com", "b@x.com"}, BOOLEAN))
LoginSeeker == Login(LoginRequests({"s@x.com"}, {FALSE}))

LoginAccounts ==
    Login(LoginRequests({"a@x.com", "s@x.com", "d@x.com", "b@x.com"}, {FALSE}))

RegisterSeeker == Register({SeekerRegistration("s@x.com")})

ResetPassword ==
    \E token \in PresentableTokens, salt \in Salts :
        LET request == [token |-> token, new_password |-> Secret2]
        IN /\ Respond("reset_password", token, request, reset_password(request, salt))
           /\ UNCHANGED <<now, ticks>>

NotificationPreferences ==
    {[email_notifications |-> e, job_alerts |-> TRUE, application_updates |-> TRUE,
      marketing_emails |-> FALSE, weekly_digest |-> FALSE] : e \in BOOLEAN}

UpdateNotificationPreferences ==
    \E token \in PresentableTokens, prefs \in NotificationPreferences :
        /\ Respond("update_notification_preferences", token, prefs,
                   update_notification_preferences(prefs, token))
        /\ UNCHANGED <<now, ticks>>

JobAlerts ==
    {[keywords |-> <<"python">>, location |-> None, job_type |-> None,
      frequency |-> "daily"]}

CreateJobAlert ==
    \E token \in PresentableTokens, alert \in JobAlerts :
        LET r == create_job_alert(alert, token)
        IN /\ \A u \in r.users : Len(JobAlertsOf(u)) <= MaxAlerts
           /\ Respond("create_job_alert", token, alert, r)
           /\ UNCHANGED <<now, ticks>>

CreateJob ==
    \E token \in PresentableTokens, job_data \in JobCreates :
        /\ Respond("create_job", token, job_data, create_job(job_data, token))
        /\ UNCHANGED <<now, ticks>>

GetMyJobs ==
    \E token \in PresentableTokens :
        /\ Respond("get_my_jobs", token, EmptyDict, get_my_jobs(token))
        /\ UNCHANGED <<now, ticks>>

UpdateJob ==
    \E token \in PresentableTokens, job_id \in JobIdStrings, job_data \in JobUpdates :
        /\ Respond("update_job", token, [job_id |-> job_id, job_data |-> job_data],
                   update_job(job_id, job_data, token))
        /\ UNCHANGED <<now, ticks>>

GetAdminJobById ==
    \E token \in PresentableTokens, job_id \in JobIdStrings :
        /\ Respond("get_admin_job_by_id", token, [job_id |-> job_id],
                   get_admin_job_by_id(job_id, token))
        /\ UNCHANGED <<now, ticks>>

DeleteJob ==
    \E token \in PresentableTokens, job_id \in JobIdStrings :
        /\ Respond("delete_job", token, [job_id |-> job_id], delete_job(job_id, token))
        /\ UNCHANGED <<now, ticks>>

GetAdminDashboardStats ==
    \E token \in PresentableTokens :
        /\ Respond("get_admin_dashboard_stats", token, EmptyDict,
                   get_admin_dashboard_stats(token))
        /\ UNCHANGED <<now, ticks>>

ApplyForJob ==
    \E token \in PresentableTokens, job_id \in ApplyJobIdStrings :
        /\ Respond("apply_for_job", token, [job_id |-> job_id],
                   apply_for_job([job_id |-> job_id, status |-> "pending"], token))
        /\ UNCHANGED <<now, ticks>>

\* apply_for_job when the database may fail the increment of the counter
ApplyForJobMayFail ==
    \E token \in PresentableTokens, job_id \in ApplyJobIdStrings,
       increment_fails \in BOOLEAN :
        /\ Respond("apply_for_job", token,
                   [job_id |-> job_id, increment_fails |-> increment_fails],
                   apply_for_job_call([job_id |-> job_id, status |-> "pending"],
                                      token, increment_fails))
        /\ UNCHANGED <<now, ticks>>

GetAdminApplicants ==
    \E token \in PresentableTokens, job_id \in {NoneDoc} \cup JobIdStrings :
        /\ Respond("get_admin_applicants", token, [job_id |-> job_id],
                   get_admin_applicants(token, job_id))
        /\ UNCHANGED <<now, ticks>>

UpdateApplicationStatus ==
    \E token \in PresentableTokens, application_id \in ApplicationIdStrings,
       update_data \in ApplicationUpdates :
        /\ Respond("update_application_status", token,
                   [application_id |-> application_id, update_data |-> update_data],
                   update_application_status(application_id, update_data, token))
        /\ UNCHANGED <<now, ticks>>

SaveJob ==
    \E token \in PresentableTokens, job_id \in JobIdStrings :
        /\ Respond("save_job", token, [job_id |-> job_id],
                   save_job([job_id |-> job_id, title |-> "Dev"], token))
        /\ UNCHANGED <<now, ticks>>

UnsaveJob ==
    \E token \in PresentableTokens, job_id \in JobIdStrings :
        /\ Respond("unsave_job", token, [job_id |-> job_id], unsave_job(job_id, token))
        /\ UNCHANGED <<now, ticks>>

\* save requests whose title is or is not the title of the stored job
SaveRequests ==
    {[job_id |-> job_id, title |-> title] :
        job_id \in JobIdStrings, title \in {"Dev", "Dev job"}}

SaveJobAs ==
    \E token \in PresentableTokens, saved_job_data \in SaveRequests :
        /\ Respond("save_job", token, saved_job_data, save_job(saved_job_data, token))
        /\ UNCHANGED <<now, ticks>>

\* lists of job ids: one job, the same job twice, an id that is not an
\* ObjectId before a job, a job that does not exist before one that does
BulkJobIds ==
    {<<Str(JobOid(1))>>, <<Str(JobOid(1)), Str(JobOid(1))>>,
     <<Junk("undefined"), Str(JobOid(1))>>, <<Str(JobOid(0)), Str(JobOid(1))>>}

BulkSaveJobs ==
    \E token \in PresentableTokens, job_ids \in BulkJobIds :
        /\ Respond("bulk_save_jobs", token, [job_ids |-> job_ids],
                   bulk_save_jobs(job_ids, token))
        /\ UNCHANGED <<now, ticks>>

CreateProfileWith(forms) ==
    \E token \in PresentableTokens, form \in forms :
        /\ Respond("create_profile", token, form, create_profile(form, token))
        /\ UNCHANGED <<now, ticks>>

CreateProfile == CreateProfileWith(ProfileForms)

\* edits of the fields the match score reads
JobEdits == {[skills |-> <<"python">>], [location |-> Lhr], [experience_level |-> NoneText]}

EditJob ==
    \E token \in issued, job_id \in JobIdStrings, job_data \in JobEdits :
        /\ Respond("update_job", token, [job_id |-> job_id, job_data |-> job_data],
                   update_job(job_id, job_data, token))
        /\ UNCHANGED <<now, ticks>>

\* forms whose skills field is a JSON array, a JSON number, or not JSON
SkillsForms ==
    {[location |-> LHR, experience |-> NoneText, skills |-> sk] :
        sk \in {[list |-> <<"python", "sql">>], [number |-> 5], [invalid |-> "python"]}}

CreateProfileSkills == CreateProfileWith(SkillsForms)

CalculateJobMatchScore ==
    \E token \in PresentableTokens, job_id \in JobIdStrings :
        /\ Respond("calculate_job_match_score", token, [job_id |-> job_id],
                   calculate_job_match_score(job_id, token))
        /\ UNCHANGED <<now, ticks>>

Init ==
    /\ now = 0
    /\ ticks = 0
    /\ users = {}
    /\ jobs = {}
    /\ nextJobId = 1
    /\ applications = {}
    /\ saved_jobs = {}
    /\ profiles = {}
    /\ issued = {}
    /\ outbox = {}
    /\ resp = NoResp
    /\ reg = <<>>

----------------------------------------------------------------------------
(* Concurrent register requests: each awaits find_one (auth.py line 47),   *)
(* then insert_one (line 84); other requests run between the two awaits.   *)

ConcurrentRegistrations ==
    {AdminRegistration("a@x.com"), SeekerRegistration("a@x.com"),
     SeekerRegistration("s@x.com")}

RegFind ==
    \E user_data \in ConcurrentRegistrations :
        LET err == register_check(users, user_data)
        IN /\ Len(reg) < MaxRegs
           /\ reg' = Append(reg, [user_data |-> user_data,
                                   pc |-> IF err # None THEN "done" ELSE "insert",
                                   status |-> IF err # None THEN 400 ELSE 0,
                                   detail |-> err,
                                   body |-> EmptyDict])
           /\ UNCHANGED <<now, ticks, users, jobs, nextJobId, applications,
                          saved_jobs, profiles, issued, outbox, resp>>

RegInsert ==
    \E p \in DOMAIN reg, salt \in Salts, ts \in ClockReads :
        LET r == register_insert(reg[p].user_data, salt, ts)
        IN /\ reg[p].pc = "insert"
           /\ users' = r.users
           /\ issued' = r.issued
           /\ reg' = [reg EXCEPT ![p] = [@ EXCEPT !.pc = "done", !.status = r.status,
                                                  !.detail = r.detail, !.body = r.body]]
           /\ ClockAfter(ts[2])
           /\ UNCHANGED <<jobs, nextJobId, applications, saved_jobs, profiles,
                          outbox, resp>>

\* Concurrent apply_for_job requests: each awaits the finds of its checks
\* (applications.py lines 80-133), then insert_one (line 168), then the
\* update_one of the counter (line 182); other requests run between the
\* awaits. A request keeps the user and job documents its checks read.

ConcurrentApplications ==
    {[job_id |-> job_id, status |-> "pending"] :
        job_id \in {Str(JobOid(1)), Junk("dev")}}

AppFind ==
    \E application_data \in ConcurrentApplications, token \in issued :
        LET c == apply_checks(application_data, token)
            passed == c.rejected = NoneDoc
        IN /\ Len(reg) < MaxRegs
           /\ reg' = Append(reg, [application_data |-> application_data,
                                   token |-> token, user |-> c.user, job |-> c.job,
                                   pc |-> IF passed THEN "insert" ELSE "done",
                                   status |-> IF passed THEN 0 ELSE c.rejected.status,
                                   detail |-> IF passed THEN "" ELSE c.rejected.detail,
                                   body |-> EmptyDict,
                                   inserted |-> FALSE, counted |-> FALSE])
           /\ UNCHANGED <<now, ticks, users, jobs, nextJobId, applications,
                          saved_jobs, profiles, issued, outbox, resp>>

AppInsert ==
    \E p \in DOMAIN reg :
        LET r == apply_insert(reg[p].application_data, reg[p].user, reg[p].job)
            stored == r.status = 200
        IN /\ reg[p].pc = "insert"
           /\ applications' = r.applications
           /\ reg' = [reg EXCEPT ![p] = [@ EXCEPT !.pc = IF stored THEN "count" ELSE "done",
                                                  !.status = IF stored THEN 0 ELSE r.status,
                                                  !.detail = r.detail,
                                                  !.body = r.body,
                                                  !.inserted = stored]]
           /\ UNCHANGED <<now, ticks, users, jobs, nextJobId, saved_jobs, profiles,
                          issued, outbox, resp>>

AppCount ==
    \E p \in DOMAIN reg :
        LET r == apply_count(Ok(reg[p].body), reg[p].user, reg[p].job, FALSE)
        IN /\ reg[p].pc = "count"
           /\ jobs' = r.jobs
           /\ outbox' = r.outbox
           /\ reg' = [reg EXCEPT ![p] = [@ EXCEPT !.pc = "done", !.status = r.status,
                                                  !.counted = TRUE]]
           /\ UNCHANGED <<now, ticks, users, nextJobId, applications, saved_jobs,
                          profiles, issued, resp>>

\* the clock does not advance any more
InitAtRest ==
    /\ now = 0 /\ ticks = MaxTicks
    /\ users = {} /\ jobs = {} /\ nextJobId = 1
    /\ applications = {} /\ saved_jobs = {} /\ profiles = {}
    /\ issued = {} /\ outbox = {} /\ resp = NoResp /\ reg = <<>>

\* The documents register and create_job store for an account and a job
SeededUser(email, role) ==
    [_id |-> UserOid(email, 0), email |-> email,
     password_hash |-> get_password_hash(Secret1, "salt1"),
     role |-> role, is_active |-> TRUE, profile_completed |-> FALSE,
     last_login |-> NoneTime]

SeededJob(job_data, n, email) ==
    Update(job_data, [_id |-> JobOid(n), posted_by |-> Str(UserOid(email, 0)),
                      posted_by_email |-> email, applications_count |-> 0])

\* An administrator has registered and posted a job and a job seeker has
\* registered; the job seeker holds the token of the registration.
InitSeeded ==
    /\ now = 0 /\ ticks = MaxTicks
    /\ users = {SeededUser("a@x.com", "admin"), SeededUser("s@x.com", "job_seeker")}
    /\ \E job_data \in JobCreates : jobs = {SeededJob(job_data, 1, "a@x.com")}
    /\ nextJobId = 2
    /\ applications = {} /\ saved_jobs = {} /\ profiles = {}
    /\ issued = {create_access_token([sub |-> "s@x.com", role |-> "job_seeker"],
                                     FALSE, 0, 0)}
    /\ outbox = {} /\ resp = NoResp /\ reg = <<>>

\* An administrator, a job seeker and a job seeker whose account has been
\* deactivated are registered; nobody is logged in and the clock runs.
InitLogin ==
    /\ now = 0 /\ ticks = 0
    /\ users = {SeededUser("a@x.com", "admin"), SeededUser("s@x.com", "job_seeker"),
                [SeededUser("d@x.com", "job_seeker") EXCEPT !.is_active = FALSE]}
    /\ jobs = {} /\ nextJobId = 1
    /\ applications = {} /\ saved_jobs = {} /\ profiles = {}
    /\ issued = {} /\ outbox = {} /\ resp = NoResp /\ reg = <<>>

\* An administrator has posted a job, two job seekers are registered, and
\* all three hold the token of their registration.
InitApply ==
    /\ now = 0 /\ ticks = MaxTicks
    /\ users = {SeededUser("a@x.com", "admin"), SeededUser("s@x.com", "job_seeker"),
                SeededUser("b@x.com", "job_seeker")}
    /\ \E job_data \in JobCreates : jobs = {SeededJob(job_data, 1, "a@x.com")}
    /\ nextJobId = 2
    /\ applications = {} /\ saved_jobs = {} /\ profiles = {}
    /\ issued = {create_access_token([sub |-> u.email, role |-> u.role], FALSE, 0, 0) :
                    u \in {SeededUser("a@x.com", "admin"),
                           SeededUser("s@x.com", "job_seeker"),
                           SeededUser("b@x.com", "job_seeker")}}
    /\ outbox = {} /\ resp = NoResp /\ reg = <<>>

\* What the profiles and jobs collections can hold for one job seeker and
\* one job: each optional field absent, empty or filled in, the skills a
\* parsed JSON value, the texts in either letter case.
StoredSkills ==
    {[list |-> <<>>], [list |-> <<"python", "sql">>],
     [list |-> <<"python", "python", "SQL">>], [number |-> 5]}
StoredExperience ==
    {EmptyDict, [experience |-> <<>>], [experience |-> Mid], [experience |-> NoneWord]}
StoredLocation ==
    {EmptyDict, [location |-> <<>>], [location |-> LHR], [location |-> LhrPK]}

StoredProfiles ==
    {Update(Update(loc, exp), [skills |-> sk, user_id |-> Str(UserOid("s@x.com", 0))]) :
        loc \in StoredLocation, exp \in StoredExperience, sk \in StoredSkills}

StoredJobs ==
    {SeededJob([title |-> "Dev", location |-> loc, status |-> "active",
                skills |-> sk, experience_level |-> exp], 1, "a@x.com") :
        loc \in {LhrPK, Lhr, <<>>},
        sk \in {<<>>, <<"python">>, <<"python", "react", "sql">>},
        exp \in {NoneText, mid}}

InitMatch ==
    /\ now = 0 /\ ticks = MaxTicks
    /\ \E stored \in {{}} \cup {{d} : d \in StoredProfiles} :
         /\ profiles = stored
         /\ users = {SeededUser("a@x.com", "admin"),
                     [SeededUser("s@x.com", "job_seeker")
                      EXCEPT !.profile_completed = (stored # {})]}
    /\ \E job \in StoredJobs : jobs = {job}
    /\ nextJobId = 2
    /\ applications = {} /\ saved_jobs = {}
    /\ issued = {create_access_token([sub |-> "s@x.com", role |-> "job_seeker"],
                                     FALSE, 0, 0)}
    /\ outbox = {} /\ resp = NoResp /\ reg = <<>>

\* As InitSeeded, the administrator holding a token as well
InitEdits ==
    /\ now = 0 /\ ticks = MaxTicks
    /\ users = {SeededUser("a@x.com", "admin"), SeededUser("s@x.com", "job_seeker")}
    /\ \E job_data \in JobCreates : jobs = {SeededJob(job_data, 1, "a@x.com")}
    /\ nextJobId = 2
    /\ applications = {} /\ saved_jobs = {} /\ profiles = {}
    /\ issued = {create_access_token([sub |-> e, role |-> SeededUser(e, r).role],
                                     FALSE, 0, 0) :
                    <<e, r>> \in {<<"a@x.com", "admin">>, <<"s@x.com", "job_seeker">>}}
    /\ outbox = {} /\ resp = NoResp /\ reg = <<>>

NextToken == TickAny \/ CreateAccessToken \/ DecodeToken

SpecToken == Init /\ [][NextToken]_vars

\* every guarded route, two accounts
Next ==
    \/ RegisterTwo
    \/ CreateJob
    \/ GetMyJobs
    \/ UpdateJob
    \/ GetAdminJobById
    \/ DeleteJob
    \/ GetAdminDashboardStats
    \/ ApplyForJob
    \/ GetAdminApplicants
    \/ UpdateApplicationStatus
    \/ SaveJob
    \/ UnsaveJob
    \/ CreateProfile
    \/ CalculateJobMatchScore

Spec == InitAtRest /\ [][Next]_vars

\* the job and application routes, two admins and a job seeker, clock at rest
NextOwner ==
    \/ RegisterThree
    \/ CreateJob
    \/ UpdateJob
    \/ GetAdminJobById
    \/ DeleteJob
    \/ ApplyForJob
    \/ UpdateApplicationStatus

SpecOwner == InitAtRest /\ [][NextOwner]_vars

\* registration and password-reset requests
NextAuth == TickExpiry \/ RegisterAny \/ ForgotPassword

SpecAuth == Init /\ [][NextAuth]_vars

NextRegister == RegFind \/ RegInsert

SpecRegister == Init /\ [][NextRegister]_vars

\* sessions: tokens issued by register, login and forgot_password, while
\* the clock runs and identities, profiles and jobs are edited
NextSession ==
    \/ TickAny
    \/ TickExpiry
    \/ RegisterSeeker
    \/ LoginAny
    \/ ForgotPasswordSeeker
    \/ ResetPassword
    \/ CreateProfile
    \/ DecodeToken

SpecSession == Init /\ [][NextSession]_vars

\* every route that writes to the users collection, and apply / save
NextIdentity ==
    \/ LoginSeeker
    \/ ResetPassword
    \/ CreateProfile
    \/ UpdateNotificationPreferences
    \/ CreateJobAlert
    \/ ApplyForJob
    \/ SaveJob

SpecIdentity == InitSeeded /\ [][NextIdentity]_vars

\* logging in and resetting passwords while the clock runs
NextLogin ==
    \/ TickExpiry
    \/ LoginAccounts
    \/ ForgotPasswordSeeker
    \/ ResetPassword

SpecLogin == InitLogin /\ [][NextLogin]_vars

\* applications to a job that its poster may close or delete, the counter
\* increment failing or not
NextApply == ApplyForJobMayFail \/ UpdateJob \/ DeleteJob

SpecApply == InitApply /\ [][NextApply]_vars

\* concurrent applications of two job seekers to one job
NextApplyRace == AppFind \/ AppInsert \/ AppCount

SpecApplyRace == InitApply /\ [][NextApplyRace]_vars

\* saving and unsaving one job by three accounts
NextSaved == SaveJobAs \/ UnsaveJob \/ BulkSaveJobs

SpecSaved == InitApply /\ [][NextSaved]_vars

\* profile and job edits between match-score requests
NextEdits == CreateProfile \/ CreateProfileSkills \/ EditJob \/ CalculateJobMatchScore

SpecEdits == InitEdits /\ [][NextEdits]_vars

\* the match score over stored profiles and jobs
NextMatch == CalculateJobMatchScore \/ CreateProfileSkills

SpecMatch == InitMatch /\ [][NextMatch]_vars

\* the credential verifier as a pure function of password, salt and backend
NextPassword == GetPasswordHash \/ VerifyPassword

SpecPassword == Init /\ [][NextPassword]_vars

----------------------------------------------------------------------------
(* Properties                                                              *)

\* what the caller sees of a handler's outcome
Outcome(r) == [status |-> r.status, detail |-> r.detail, body |-> r.body]

\* the users document of the caller of the last request
Caller(r) == FindUserByEmail(users, r.sub)

ConfiguredTTL(remember_me) ==
    IF remember_me THEN REMEMBER_ME_DAYS * SecondsPerDay
    ELSE ACCESS_TOKEN_EXPIRE_MINUTES * SecondsPerMinute

\* C1: for every claim set {subject, role}, decoding the token that
\* create_access_token issued returns the same subject and role, and exp - iat
\* is exactly the default TTL (remember_me false) or exactly 7 days
\* (remember_me true), also when the clock advances between the two reads.
C1_RoundTripExactTTL ==
    (resp.op = "create_access_token" /\ "role" \in DOMAIN resp.arg.data) =>
        LET token == resp.body
            payload == decode_token(token, token.claims["iat"])
        IN /\ payload # NoneDoc
           /\ payload["sub"] = resp.arg.data["sub"]
           /\ payload["role"] = resp.arg.data["role"]
           /\ payload["exp"] - payload["iat"] = ConfiguredTTL(resp.arg.remember_me)

\* C2: decode_token never raises; it returns none for a malformed token, for a
\* token signed with another secret and for a token whose exp is in the past,
\* and it returns the claim set exactly for a well-formed, correctly signed,
\* unexpired token.
C2_DecodeNeverRaises ==
    /\ \A token \in PresentableTokens :
          LET r == decode_token_call(token, now)
              good == /\ token.wf
                      /\ token.key = SECRET_KEY
                      /\ ~(token.claims["exp"] < now)
          IN /\ r.raised = None
             /\ (r.value # NoneDoc) <=> good
             /\ good => r.value = token.claims
    /\ resp.op = "decode_token" =>
          /\ resp.detail = None
          /\ resp.body # NoneDoc =>
                /\ resp.arg.wf
                /\ resp.arg.key = SECRET_KEY
                /\ resp.body = resp.arg.claims

\* an issued, well-formed, correctly signed token was decoded after its exp
\* and the answer was none
C2_ExpiredDecoded ==
    /\ resp.op = "decode_token"
    /\ resp.arg \in issued
    /\ resp.arg.claims["exp"] < now
    /\ resp.detail = None
    /\ resp.body = NoneDoc

ProtectedOps ==
    {"create_job", "update_job", "delete_job", "apply_for_job",
     "update_application_status", "save_job", "unsave_job", "create_profile",
     "calculate_job_match_score", "get_admin_dashboard_stats"}

\* C3: each protected operation called with a token from which decode_token
\* yields no claims answers 401, whatever role the token names and whatever it
\* targets, and leaves every collection as it was.
C3_UnauthenticatedFirst ==
    [][(resp'.op \in ProtectedOps /\ ~resp'.authed) =>
          /\ resp'.status = 401
          /\ UNCHANGED collections
          /\ UNCHANGED outbox]_vars

\* update_job on an existing job with a token that names role job_seeker but
\* does not verify
C3_UnverifiedOnExistingJob ==
    /\ resp.op = "update_job"
    /\ ~resp.authed
    /\ resp.claimed_role = "job_seeker"
    /\ resp.status = 401
    /\ \E d \in jobs : Str(d._id) = resp.arg.job_id

AdminOnlyOps ==
    {"create_job", "update_job", "delete_job", "get_my_jobs",
     "get_admin_dashboard_stats", "get_admin_applicants",
     "update_application_status"}

\* C4 as stated: a token naming a role outside {admin, moderator} on an
\* admin-only action gets 403 whether or not the token verifies, and jobs and
\* applications stay as they were.
C4_ForbiddenRegardless ==
    [][(resp'.op \in AdminOnlyOps /\ resp'.claimed_role = "job_seeker") =>
          /\ resp'.status = 403
          /\ UNCHANGED <<jobs, applications>>]_vars

\* C4 amended: on an admin-only action a token that verifies with a role
\* outside {admin, moderator} gets 403, also when its subject has no account;
\* a token naming such a role that does not verify gets 401; jobs and
\* applications stay as they were in both cases.
C4_ForbiddenWhenVerified ==
    [][(resp'.op \in AdminOnlyOps /\ resp'.claimed_role \notin AdminRoles) =>
          /\ resp'.status = IF resp'.authed THEN 403 ELSE 401
          /\ UNCHANGED <<jobs, applications>>]_vars

\* a registered job seeker with a verified token was refused delete_job on an
\* existing job
C4_SeekerRefused ==
    /\ resp.op = "delete_job"
    /\ resp.authed
    /\ resp.role = "job_seeker"
    /\ Caller(resp) # NoneDoc
    /\ resp.status = 403
    /\ \E d \in jobs : Str(d._id) = resp.arg.job_id

OwnerOps == {"update_job", "delete_job", "get_admin_job_by_id"}

\* an ObjectId string no job ever has
NonexistentJobId == Str(JobOid(0))

\* the outcome of the same call aimed at a job that does not exist
MissingOutcome(r) ==
    CASE r.op = "update_job" ->
             Outcome(update_job(NonexistentJobId, r.arg.job_data, r.token))
      [] r.op = "delete_job" -> Outcome(delete_job(NonexistentJobId, r.token))
      [] r.op = "get_admin_job_by_id" ->
             Outcome(get_admin_job_by_id(NonexistentJobId, r.token))
      [] r.op = "update_application_status" ->
             Outcome(update_application_status(Str(NoAppOid), r.arg.update_data, r.token))

\* the request r comes from a registered admin / moderator
FromAdmin(r) == r.authed /\ r.role \in AdminRoles /\ Caller(r) # NoneDoc

\* the job the request r names exists and another account posted it
JobOfAnother(r) ==
    /\ IsObjectIdString(r.arg.job_id)
    /\ \E d \in jobs : /\ d._id = ObjectId(r.arg.job_id)
                       /\ d.posted_by # Str(Caller(r)._id)

\* the application the request r names exists, on a job another account posted
ApplicationOfAnother(r) ==
    /\ IsObjectIdString(r.arg.application_id)
    /\ \E a \in applications :
          /\ a._id = ObjectId(r.arg.application_id)
          /\ \E d \in jobs : /\ Str(d._id) = a.job_id
                             /\ d.posted_by # Str(Caller(r)._id)

\* C5: update_job, delete_job and get_admin_job_by_id called by an admin /
\* moderator on an existing job that another account posted answer 404, the
\* same outcome as for a job id that does not exist, and the jobs collection
\* stays as it was.
C5_OwnershipMaskedAsNotFound ==
    [][(resp'.op \in OwnerOps /\ FromAdmin(resp') /\ JobOfAnother(resp')) =>
          /\ resp'.status = 404
          /\ Outcome(resp') = MissingOutcome(resp')
          /\ UNCHANGED jobs]_vars

\* an admin was answered 404 by delete_job on a job that is there and that
\* another admin posted
C5_DeleteOfAnothersJob ==
    /\ resp.op = "delete_job"
    /\ FromAdmin(resp)
    /\ JobOfAnother(resp)
    /\ resp.status = 404

\* C6: for update_job, delete_job, get_admin_job_by_id and
\* update_application_status, a call on a resource that exists but belongs to
\* another admin has the same outcome as the call on a resource that does not
\* exist.
C6_NoExistenceLeak ==
    [][/\ (resp'.op \in OwnerOps /\ FromAdmin(resp') /\ JobOfAnother(resp')) =>
             Outcome(resp') = MissingOutcome(resp')
       /\ (/\ resp'.op = "update_application_status"
           /\ FromAdmin(resp')
           /\ ApplicationOfAnother(resp')) =>
             Outcome(resp') = MissingOutcome(resp')]_vars

JobIds(coll) == {d._id : d \in coll}

\* the last request came from the account that posted_by names
ByPoster(r, posted_by) == r.authed /\ Caller(r) # NoneDoc /\ Str(Caller(r)._id) = posted_by

\* creation and deletion of job documents, and the constancy of posted_by
JobLifecycleByPoster ==
    /\ \A d \in jobs' :
          d._id \notin JobIds(jobs) =>
             /\ resp'.op = "create_job"
             /\ resp'.role \in AdminRoles
             /\ ByPoster(resp', d.posted_by)
    /\ \A d \in jobs :
          d._id \notin JobIds(jobs') =>
             /\ resp'.op = "delete_job"
             /\ resp'.role \in AdminRoles
             /\ ByPoster(resp', d.posted_by)
    /\ \A d \in jobs, e \in jobs' : d._id = e._id => e.posted_by = d.posted_by

C8_WrongAdminCodeRejected ==
    [][/\ (/\ resp'.op = "register"
           /\ resp'.arg.is_admin
           /\ resp'.arg.admin_code # ADMIN_REGISTRATION_CODE) =>
             /\ resp'.status = 400
             /\ FindUserByEmail(users, resp'.arg.email) = NoneDoc =>
                   resp'.detail = "Invalid admin registration code"
             /\ "access_token" \notin DOMAIN resp'.body
             /\ UNCHANGED <<users, issued>>
       /\ \A u \in users' \ users :
             u.role = "admin" =>
                /\ resp'.op = "register"
                /\ resp'.arg.is_admin
                /\ resp'.arg.admin_code = ADMIN_REGISTRATION_CODE
                /\ resp'.arg.email = u.email]_vars

\* an admin registration with a wrong code for an e-mail nobody holds was
\* answered 400
C8_WrongCodeOnFreshEmail ==
    /\ resp.op = "register"
    /\ resp.arg.is_admin
    /\ resp.arg.admin_code = "WRONG"
    /\ resp.status = 400
    /\ resp.detail = "Invalid admin registration code"
    /\ FindUserByEmail(users, resp.arg.email) = NoneDoc

\* C9: whatever the interleaving of concurrent register requests, users holds
\* at most one document per e-mail, and of the requests for one e-mail at most
\* one answers 201 with a token.
C9_EmailUnique ==
    \A e \in Emails :
        /\ Cardinality({u \in users : u.email = e}) <= 1
        /\ Cardinality({p \in DOMAIN reg : /\ reg[p].user_data.email = e
                                           /\ reg[p].status = 201}) <= 1
        /\ \A p \in DOMAIN reg :
              "access_token" \in DOMAIN reg[p].body => reg[p].status = 201

\* two requests for one e-mail both passed the find before either inserted;
\* one was answered 201, the other lost at the index
C9_RaceLost ==
    \E p \in DOMAIN reg, q \in DOMAIN reg :
        /\ p # q
        /\ reg[p].user_data.email = reg[q].user_data.email
        /\ reg[p].status = 201
        /\ reg[q].status = 500
        /\ reg[q].detail = "DuplicateKeyError"

\* C10: forgot_password answers 200 with the same message and the echoed
\* e-mail whether or not the e-mail is registered; the one difference is that
\* for a registered e-mail a reset token is issued and one e-mail is queued.
C10_ForgotPasswordGeneric ==
    [][resp'.op = "forgot_password" =>
          LET user == FindUserByEmail(users, resp'.arg.email)
              queued == outbox' \ outbox
          IN /\ resp'.status = 200
             /\ resp'.body = [message |-> GenericResetMessage,
                              email |-> resp'.arg.email]
             /\ UNCHANGED collections
             /\ user = NoneDoc => outbox' = outbox
             /\ user # NoneDoc =>
                   /\ \E m \in outbox' :
                         /\ m.kind = "password_reset"
                         /\ m.to = resp'.arg.email
                         /\ m.reset_token.claims["sub"] = resp'.arg.email
                         /\ m.reset_token.claims["type"] = "password_reset"
                         /\ queued \subseteq {m}]_vars

\* the request for an unregistered e-mail was answered while the request for
\* a registered one had queued its e-mail
C10_BothCasesAnswered ==
    /\ resp.op = "forgot_password"
    /\ FindUserByEmail(users, resp.arg.email) = NoneDoc
    /\ resp.status = 200
    /\ \E m \in outbox : m.kind = "password_reset"

----------------------------------------------------------------------------
(* Passwords                                                               *)

Bytes(password) == Len(Utf8(password))

\* C14: for passwords of at most 72 bytes, a password verifies against its
\* own digest under every salt, digests of different salts differ, and a
\* different password does not verify.
C14_VerifyIffSamePassword ==
    /\ (resp.op = "get_password_hash" /\ Bytes(resp.arg.password) <= BCRYPT_MAX_BYTES)
       => /\ resp.detail = None
          /\ \A salt \in HashSalts :
               LET other == get_password_hash_call(resp.arg.password, salt,
                                                   resp.arg.backend)
               IN /\ other.raised = None
                  /\ verify_password(resp.arg.password, other.value, resp.arg.backend)
                  /\ (salt # resp.arg.salt => other.value # resp.body)
    /\ (/\ resp.op = "verify_password"
        /\ Bytes(resp.arg.password) <= BCRYPT_MAX_BYTES
        /\ Bytes(resp.arg.plain_password) <= BCRYPT_MAX_BYTES)
       => (resp.body.result <=> resp.arg.plain_password = resp.arg.password)

\* a password of exactly 72 bytes refused against the digest of another one
\* that differs from it in the last byte only
C14_LastByteMatters ==
    /\ resp.op = "verify_password"
    /\ Bytes(resp.arg.password) = BCRYPT_MAX_BYTES
    /\ Bytes(resp.arg.plain_password) = BCRYPT_MAX_BYTES
    /\ resp.arg.plain_password # resp.arg.password
    /\ Take(resp.arg.plain_password, BCRYPT_MAX_BYTES - 1)
         = Take(resp.arg.password, BCRYPT_MAX_BYTES - 1)
    /\ ~resp.body.result

RECURSIVE Prefix72(_)
\* the longest prefix of the password that encodes to at most 72 bytes
Prefix72(password) ==
    IF Bytes(password) <= BCRYPT_MAX_BYTES THEN password
    ELSE Prefix72(SubSeq(password, 1, Len(password) - 1))

\* C15: a password of more than 72 bytes is hashed without error, verifies
\* against its own digest, and verifies interchangeably with its
\* 72-byte-truncated form.
C15_TruncationContract ==
    /\ (resp.op = "get_password_hash" /\ Bytes(resp.arg.password) > BCRYPT_MAX_BYTES)
       => resp.detail = None
    /\ (/\ resp.op = "verify_password"
        /\ \/ Bytes(resp.arg.password) > BCRYPT_MAX_BYTES
           \/ Bytes(resp.arg.plain_password) > BCRYPT_MAX_BYTES
        /\ \/ resp.arg.plain_password = resp.arg.password
           \/ resp.arg.plain_password = Prefix72(resp.arg.password)
           \/ resp.arg.password = Prefix72(resp.arg.plain_password))
       => resp.body.result

----------------------------------------------------------------------------
(* Sessions and identities                                                 *)

\* the reset tokens handed to the mailer
ResetTokens == {m.reset_token : m \in {x \in outbox : x.kind = "password_reset"}}

\* every token the system has produced
SystemTokens == issued \cup ResetTokens

\* C11: at every moment a token the system has issued decodes to its claim
\* set if the clock has not passed its exp and to None if it has, whatever
\* requests were served in between; no step takes an issued token back.
C11_TokensStateless ==
    /\ [](\A token \in SystemTokens :
            decode_token(token, now) =
                IF token.claims["exp"] < now THEN NoneDoc ELSE token.claims)
    /\ [][SystemTokens \subseteq SystemTokens']_vars

\* a password reset has succeeded for a subject whose earlier token, issued
\* before the reset token, is still accepted
C11_SurvivesReset ==
    /\ resp.op = "reset_password"
    /\ resp.status = 200
    /\ resp.token \in ResetTokens
    /\ \E token \in issued :
         /\ token.claims["sub"] = resp.sub
         /\ token.claims["iat"] < resp.token.claims["iat"]
         /\ decode_token(token, now) = token.claims
    /\ \E u \in users : u.email = resp.sub
                        /\ u.password_hash = get_password_hash(Secret2, "salt1")

\* C12: every token the system has issued carries sub, role, iat, exp and
\* type; the tokens of register and login have type "access" and the token
\* of forgot_password keeps the type "password_reset" it was given.
C12_FullClaimSet ==
    /\ \A token \in SystemTokens :
         /\ {"sub", "role", "iat", "exp", "type"} \subseteq DOMAIN token.claims
         /\ token.claims["type"] \in {"access", "password_reset"}
    /\ \A token \in issued : Get(token.claims, "type") = "access"
    /\ \A token \in ResetTokens : Get(token.claims, "type") = "password_reset"

\* C13: no step changes the role of a stored identity or removes it, and a
\* step that changes a password_hash is a successful reset_password.
C13_IdentityFrame ==
    [][\A u \in users :
         \E v \in users' :
           /\ v._id = u._id
           /\ v.role = u.role
           /\ (v.password_hash # u.password_hash
                 => resp'.op = "reset_password" /\ resp'.status = 200)]_vars

\* the job seeker has a profile, a job alert, an application and a new
\* password, and is still a job seeker
C13_SeekerStillSeeker ==
    /\ resp.op = "reset_password"
    /\ resp.status = 200
    /\ applications # {}
    /\ \E u \in users :
         /\ u.email = "s@x.com"
         /\ u.role = "job_seeker"
         /\ u.profile_completed
         /\ JobAlertsOf(u) # <<>>
         /\ u.password_hash # get_password_hash(Secret1, "salt1")

----------------------------------------------------------------------------
(* Match score                                                             *)

MatchAnswered == resp.op = "calculate_job_match_score" /\ resp.authed

\* the profile of the caller, if the caller has an account and a profile
CallerProfiles ==
    {d \in profiles : \E u \in users : u.email = resp.sub /\ d.user_id = Str(u._id)}
CallerProfile == CHOOSE d \in CallerProfiles : TRUE

CallerKnown == \E u \in users : u.email = resp.sub

\* the job the request names, if it names one
TargetJobs ==
    IF IsObjectIdString(resp.arg.job_id)
    THEN {d \in jobs : d._id = ObjectId(resp.arg.job_id)} ELSE {}
TargetJob == CHOOSE d \in TargetJobs : TRUE

\* a request by a caller with a profile for a job in the collection
Scored == MatchAnswered /\ CallerProfiles # {} /\ TargetJobs # {}

\* a request the general formula applies to
ScoredBySkills ==
    /\ Scored
    /\ IsList(CallerProfile.skills)
    /\ TargetJob.skills # <<>>

\* n / d rounded to the nearest integer, d > 0, no ties among the inputs
Rounded(n, d) == (2 * n + d) \div (2 * d)

\* a occurs in b as a contiguous run of characters
Occurs(a, b) == \E i \in 0..(Len(b) - Len(a)) : SubSeq(b, i + 1, i + Len(a)) = a

\* C16: for a caller with a profile and a job with skills, match_score is
\* min(skill_pct * 0.7 + experience + location, 100) to one decimal, where
\* skill_pct is the share of the job's distinct skills found, compared
\* case-sensitively, among the profile's; {python, sql} against
\* {python, react, sql} with no other match scores 46.7.
C16_ScoreFormula ==
    ScoredBySkills =>
        LET P == ToSet(CallerProfile.skills.list)
            J == ToSet(TargetJob.skills)
            b == resp.body.breakdown
        IN /\ resp.status = 200
           /\ resp.body.matched_skills = P \cap J
           /\ b.skill_score = Rounded(Cardinality(P \cap J) * 700, Cardinality(J))
           /\ b.experience_score \in {0, 200}
           /\ b.location_score \in {0, 100}
           /\ resp.body.match_score =
                Min(b.skill_score + b.experience_score + b.location_score, 1000)
           /\ (/\ P = {"python", "sql"}
               /\ J = {"python", "react", "sql"}
               /\ b.experience_score = 0
               /\ b.location_score = 0)
              => resp.body.match_score = 467

\* two of three job skills matched and nothing else: 46.7
C16_TwoOfThree ==
    /\ ScoredBySkills
    /\ resp.body.matched_skills = {"python", "sql"}
    /\ resp.body.total_job_skills = 3
    /\ resp.body.breakdown.experience_score = 0
    /\ resp.body.breakdown.location_score = 0
    /\ resp.body.match_score = 467

\* C17: for a job without skills the answer is a score of exactly 50 with no
\* matched skills and both match flags false, whatever the profile holds.
C17_NoJobSkillsFifty ==
    (Scored /\ TargetJob.skills = <<>>)
        => /\ resp.status = 200
           /\ resp.body.match_score = 500
           /\ resp.body.matched_skills = {}
           /\ ~resp.body.experience_match
           /\ ~resp.body.location_match
           /\ "breakdown" \notin DOMAIN resp.body

\* C18: a caller with an account and no profile is answered score 0 with the
\* no-profile reason and no matched skills, whatever job id is named.
C18_NoProfileZero ==
    (MatchAnswered /\ CallerKnown /\ CallerProfiles = {})
        => /\ resp.status = 200
           /\ resp.body.match_score = 0
           /\ resp.body.reason = "No profile found. Please complete your profile."
           /\ resp.body.matched_skills = {}

\* the caller has no profile and the job id is not an ObjectId
C18_MalformedIdStillZero ==
    /\ MatchAnswered /\ CallerKnown /\ CallerProfiles = {}
    /\ ~IsObjectIdString(resp.arg.job_id)
    /\ resp.status = 200
    /\ resp.body.match_score = 0

\* C19: the experience component is 20 exactly when the profile's experience
\* and the job's experience_level are both given and equal ignoring case,
\* and 0 otherwise (a side that is empty, absent or null equals nothing);
\* experience_match is true exactly when the component is 20.
C19_ExperienceComponent ==
    ScoredBySkills =>
        LET equal == /\ "experience" \in DOMAIN CallerProfile
                     /\ CallerProfile.experience # <<>>
                     /\ TargetJob.experience_level # NoneText
                     /\ Lower(CallerProfile.experience)
                          = Lower(TargetJob.experience_level)
        IN /\ resp.status = 200
           /\ resp.body.breakdown.experience_score = (IF equal THEN 200 ELSE 0)
           /\ resp.body.experience_match <=> equal

OwedAnswer ==
    IF CallerProfiles = {} THEN NoProfileResult
    ELSE match_result(CallerProfile, TargetJob).body

\* C21: every match-score answer is the one computed from the profile and
\* the job as they are stored when the request is served, so it reflects
\* every completed edit and repeats unchanged while nothing is edited; a
\* match-score request writes to no collection.
C21_NeverCached ==
    /\ []((MatchAnswered /\ resp.status = 200) => resp.body = OwedAnswer)
    /\ [][resp'.op = "calculate_job_match_score" => UNCHANGED collections]_vars

\* the full score, which the seeded job gives no profile of the model: the
\* job's skills were edited and the profile was created before the request
C21_ScoredAfterEdits ==
    /\ MatchAnswered
    /\ resp.status = 200
    /\ resp.body.match_score = 1000
    /\ TargetJob.skills = <<"python">>
    /\ \E u \in users : u.email = resp.sub /\ u.profile_completed

\* C22: every match score lies between 0 and 100, and it is 100 only when
\* every skill of the job is matched and experience and location both match.
C22_ScoreRange ==
    (MatchAnswered /\ resp.status = 200)
        => /\ resp.body.match_score \in 0..1000
           /\ resp.body.match_score = 1000
                => /\ resp.body.matched_count = resp.body.total_job_skills
                   /\ resp.body.total_job_skills > 0
                   /\ resp.body.experience_match
                   /\ resp.body.location_match

\* a stored profile reaches the cap on a stored job
C22_CapReached ==
    /\ MatchAnswered
    /\ resp.status = 200
    /\ resp.body.match_score = 1000
    /\ resp.body.breakdown.skill_score = 700

\* C30: in a general-formula answer matched_skills and missing_skills are
\* disjoint and together are the job's skills, matched_count counts the
\* matched skills, matched_count plus the number of missing skills is
\* total_job_skills, and the three scores of the breakdown add up to
\* match_score.
C30_Partition ==
    (ScoredBySkills /\ resp.status = 200)
        => LET b == resp.body
           IN /\ b.matched_skills \cap b.missing_skills = {}
              /\ b.matched_skills \cup b.missing_skills = ToSet(TargetJob.skills)
              /\ b.matched_count = Cardinality(b.matched_skills)
              /\ b.matched_count + Cardinality(b.missing_skills) = b.total_job_skills
              /\ b.breakdown.skill_score + b.breakdown.experience_score
                   + b.breakdown.location_score = b.match_score

\* some skills of the job matched, some missing, the skill score not a
\* whole number of points
C30_SomeMatchedSomeMissing ==
    /\ ScoredBySkills
    /\ resp.status = 200
    /\ resp.body.matched_skills # {}
    /\ resp.body.missing_skills # {}
    /\ resp.body.breakdown.skill_score % 10 # 0
    /\ resp.body.breakdown.experience_score = 200

----------------------------------------------------------------------------
(* Reset tokens                                                            *)

\* the lifetime the comment at forgot_password gives the reset token
ResetTokenMinutes == 60

\* C24: the token forgot_password hands to the mailer has type
\* "password_reset" and expires one hour after it was issued: exp - iat is
\* 60 minutes, and reset_password answers 400 for it once the clock is more
\* than one hour past iat.
C24_ResetTokenOneHour ==
    /\ \A token \in ResetTokens :
         /\ Get(token.claims, "type") = "password_reset"
         /\ token.claims["exp"] - token.claims["iat"] =
                ResetTokenMinutes * SecondsPerMinute
    /\ (/\ resp.op = "reset_password"
        /\ resp.token \in ResetTokens
        /\ now > resp.token.claims["iat"] + ResetTokenMinutes * SecondsPerMinute)
       => resp.status = 400

----------------------------------------------------------------------------
(* Login and password reset                                                *)

\* the stored identity a login or reset request names, before the step
Named(email) == FindUserByEmail(users, email)

\* C28: a login step answers 200 with a token only if the identity exists,
\* is active, the password verifies against the stored hash and, when
\* is_admin is requested, the stored role is admin or moderator; the token
\* carries the stored role and last_login is stamped for that identity only.
\* Every other login step issues no token and leaves users, and with it
\* every last_login, as it was.
C28_LoginSafety ==
    [][resp'.op = "login" =>
         LET user_data == resp'.arg
             user == Named(user_data.email)
         IN IF resp'.status = 200
            THEN /\ user # NoneDoc
                 /\ user.is_active
                 /\ verify_password(user_data.password, user.password_hash, "truncates")
                 /\ user_data.is_admin => user.role \in {"admin", "moderator"}
                 /\ resp'.body.access_token.claims["role"] = user.role
                 /\ resp'.body.access_token.claims["sub"] = user.email
                 /\ issued' = issued \cup {resp'.body.access_token}
                 /\ \A u \in users :
                        IF u._id = user._id
                        THEN \E v \in users' : /\ v._id = u._id
                                               /\ v.last_login # NoneTime
                                               /\ [v EXCEPT !.last_login = u.last_login] = u
                        ELSE u \in users'
            ELSE /\ resp'.status \in {401, 403}
                 /\ issued' = issued
                 /\ users' = users
                 /\ outbox' = outbox
                 /\ "access_token" \notin DOMAIN resp'.body]_vars

\* a login with the right password was refused because the account is
\* deactivated, after another account had logged in
C28_DeactivatedRefused ==
    /\ resp.op = "login"
    /\ resp.status = 403
    /\ resp.arg.email = "d@x.com"
    /\ resp.arg.password = Secret1
    /\ \E u \in users : u.email = "d@x.com" /\ u.last_login = NoneTime
    /\ \E u \in users : u.last_login # NoneTime
    /\ issued # {}

\* the request of a reset step is accepted: the token is one the system
\* produced and has not expired, names a subject, is a reset or an access
\* token, and the subject is a stored identity
ResetAccepted(token) ==
    /\ token \in SystemTokens
    /\ ~(token.claims["exp"] < now)
    /\ Get(token.claims, "sub") # None
    /\ Get(token.claims, "type") \in {"password_reset", "access"}
    /\ Named(Get(token.claims, "sub")) # NoneDoc

\* the step serves a reset_password request; the clock advances in steps
\* of its own, which leave the last response in place
ResetServed == resp'.op = "reset_password" /\ now' = now

\* C29: a reset_password step answers 200 exactly when its token is
\* accepted; it then replaces the password_hash of the identity the token's
\* subject names and leaves every other identity as it was, and otherwise it
\* leaves users as it was. No reset step takes a token back, and after a
\* successful reset the same request is accepted again for as long as the
\* token has not expired.
C29_ResetFrame ==
    /\ []((/\ resp.op = "reset_password"
           /\ resp.status = 200
           /\ ~(resp.token.claims["exp"] < now))
          => \A salt \in Salts : reset_password(resp.arg, salt).status = 200)
    /\ [][ResetServed =>
            LET token == resp'.token
                email == Get(token.claims, "sub")
            IN /\ (resp'.status = 200) <=> ResetAccepted(token)
               /\ IF ResetAccepted(token)
                  THEN /\ \A u \in users :
                             IF u.email = email
                             THEN \E salt \in Salts :
                                    [u EXCEPT !.password_hash =
                                        get_password_hash(resp'.arg.new_password, salt)]
                                    \in users'
                             ELSE u \in users'
                       /\ Cardinality(users') = Cardinality(users)
                  ELSE users' = users
               /\ SystemTokens' = SystemTokens]_vars

\* the job seeker's password was reset with the token from the mailer, which
\* is still among the reset tokens, while the administrator's and the
\* deactivated account's hashes are the registered ones
C29_ResetByMailedToken ==
    /\ resp.op = "reset_password"
    /\ resp.status = 200
    /\ resp.token \in ResetTokens
    /\ \A u \in users :
         u.password_hash = get_password_hash(IF u.email = "s@x.com" THEN Secret2
                                             ELSE Secret1, "salt1")
    /\ \E u \in users : u.email = "s@x.com" /\ u.last_login # NoneTime

----------------------------------------------------------------------------
(* Applications                                                            *)

\* the application documents of one job
ApplicationsOf(coll, d) == {a \in coll : a.job_id = Str(d._id)}

\* the job a request for job_id is about: by id, or by title for a string
\* that is not an ObjectId
Applied(job_id) ==
    {d \in jobs : IF IsObjectIdString(job_id) THEN Str(d._id) = job_id
                  ELSE RegexSearchI(job_id.junk, d.title)}

\* C25: an apply_for_job step stores an application only when the verified
\* role is job_seeker, the subject is a stored identity, the job exists and
\* is active, and the caller has no application for it; the step then adds
\* exactly that one application. A rejected step (403 for another role, 404
\* for a missing job, 400 for a job that is not active, 400 for a duplicate,
\* 401 without a verified token) leaves applications and every job's
\* applications_count as they were.
C25_ApplyGuards ==
    [][resp'.op = "apply_for_job" =>
         LET caller == Named(resp'.sub)
             target == Applied(resp'.arg.job_id)
         IN IF applications' # applications
            THEN /\ resp'.status = 200
                 /\ resp'.authed /\ resp'.role = "job_seeker"
                 /\ caller # NoneDoc
                 /\ \E d \in target :
                      /\ d.status = "active"
                      /\ ~\E a \in applications : /\ a.job_id = Str(d._id)
                                                  /\ a.user_id = Str(caller._id)
                      /\ \E a \in applications' :
                           /\ a.job_id = Str(d._id)
                           /\ a.user_id = Str(caller._id)
                           /\ applications' = applications \cup {a}
            ELSE /\ resp'.status # 200
                 /\ jobs' = jobs
                 /\ ~resp'.authed => resp'.status = 401
                 /\ (resp'.authed /\ resp'.role # "job_seeker") => resp'.status = 403
                 /\ (resp'.authed /\ resp'.role = "job_seeker" /\ target = {})
                        => resp'.status \in {400, 404}
                 /\ (resp'.authed /\ resp'.role = "job_seeker" /\ target # {})
                        => resp'.status = 400]_vars

\* a second job seeker's application was stored, then the poster closed the
\* job and the first job seeker's request was refused
C25_ClosedJobRefused ==
    /\ resp.op = "apply_for_job"
    /\ resp.status = 400
    /\ resp.detail = "This job is not currently accepting applications"
    /\ Cardinality(applications) = 1
    /\ \A a \in applications : a.user_id # Str(Named(resp.sub)._id)

\* by how much the counter of a job is behind its application documents
CountLag(apps, d) == Cardinality(ApplicationsOf(apps, d)) - d.applications_count

\* the step stored an application for job d and the increment failed
IncrementLost(d) ==
    /\ resp'.op = "apply_for_job"
    /\ resp'.arg.increment_fails
    /\ \E a \in applications' \ applications : a.job_id = Str(d._id)

\* C23: when the increment of applications_count fails after the insert,
\* the apply_for_job step still answers 200, the application is stored and
\* the job is left as it was. The counter of a job falls behind its
\* application documents by one at each such step and at no other step, and
\* it starts level: while no increment has failed, applications_count of
\* every job equals the number of applications with its job_id.
C23_BestEffortCounter ==
    /\ [](\A d \in jobs : CountLag(applications, d) >= 0)
    /\ [][/\ \A d \in jobs :
               IncrementLost(d) =>
                   /\ resp'.status = 200
                   /\ resp'.body \in applications' \ applications
                   /\ jobs' = jobs
          /\ \A d \in jobs, e \in jobs' :
               d._id = e._id =>
                   CountLag(applications', e) =
                       CountLag(applications, d) + IF IncrementLost(d) THEN 1 ELSE 0]_vars

\* one increment failed and one succeeded: two applications are stored for
\* the job and its counter is 1, the last request answered 200
C23_CounterBehind ==
    /\ resp.op = "apply_for_job"
    /\ resp.status = 200
    /\ \E d \in jobs : /\ Cardinality(ApplicationsOf(applications, d)) = 2
                       /\ d.applications_count = 1

\* the requests in flight of one job seeker for one job that did / did not
\* get their document into the collection
Stored(user_id, d) ==
    {p \in DOMAIN reg : /\ reg[p].inserted
                        /\ Str(reg[p].user._id) = user_id
                        /\ reg[p].job._id = d._id}

----------------------------------------------------------------------------
(* Saved jobs                                                              *)

\* saved_jobs holds at most one record per (user_id, job_id)
SavedUnique ==
    \A a \in saved_jobs, b \in saved_jobs :
        (a.user_id = b.user_id /\ a.job_id = b.job_id) => a = b

\* a save_job step that answers 200 for a pair already saved returns the
\* record that was there and inserts nothing; for a pair not yet saved it
\* inserts the one record it returns
SaveIdempotent ==
    (resp'.op = "save_job" /\ resp'.status = 200) =>
        LET was == SavedBy(saved_jobs, Str(Named(resp'.sub)._id), resp'.arg.job_id)
        IN IF was # {}
           THEN resp'.body \in was /\ saved_jobs' = saved_jobs
           ELSE /\ resp'.body.user_id = Str(Named(resp'.sub)._id)
                /\ resp'.body.job_id = resp'.arg.job_id
                /\ saved_jobs' = saved_jobs \cup {resp'.body}

\* the saved_jobs collection after an accepted save_job and then unsave_job
\* of the same caller for the same job, started in the current state
SaveThenUnsave(token, saved_job_data) ==
    unsave_job_call(save_job_call(saved_jobs, saved_job_data, token).saved_jobs,
                    saved_job_data.job_id, token)

SaveAccepted(token, saved_job_data) ==
    save_job_call(saved_jobs, saved_job_data, token).status = 200

\* C27 as stated: save_job is idempotent, saved_jobs holds at most one record
\* per (user_id, job_id) after any sequence of save_job, bulk_save_jobs and
\* unsave_job, and save_job followed by unsave_job for the same job leaves
\* saved_jobs as it was before the two calls.
C27_SaveUnsaveRestores ==
    /\ [](SavedUnique)
    /\ [](\A token \in PresentableTokens, saved_job_data \in SaveRequests :
             SaveAccepted(token, saved_job_data) =>
                 /\ SaveThenUnsave(token, saved_job_data).status = 200
                 /\ SaveThenUnsave(token, saved_job_data).saved_jobs = saved_jobs)
    /\ [][SaveIdempotent]_vars

\* C27 amended: save_job is idempotent, saved_jobs holds at most one record
\* per (user_id, job_id) after any sequence of save_job, bulk_save_jobs and
\* unsave_job, and save_job followed by unsave_job for the same job leaves
\* saved_jobs without a record of the caller for that job: as it was when
\* the job was not saved before, and without the earlier record when it was.
C27_SaveUnsaveRemoves ==
    /\ [](SavedUnique)
    /\ [](\A token \in PresentableTokens, saved_job_data \in SaveRequests :
             SaveAccepted(token, saved_job_data) =>
                 /\ SaveThenUnsave(token, saved_job_data).status = 200
                 /\ SaveThenUnsave(token, saved_job_data).saved_jobs =
                        saved_jobs \ SavedBy(saved_jobs,
                                             Str(Named(Get(token.claims, "sub"))._id),
                                             saved_job_data.job_id))
    /\ [][SaveIdempotent]_vars

\* save_job answered with the record bulk_save_jobs had stored, which has
\* the title of the job and not the title of the request, while another
\* account has the same job saved
C27_ExistingReturned ==
    /\ resp.op = "save_job"
    /\ resp.status = 200
    /\ resp.arg.title = "Dev job"
    /\ resp.body.title = "Dev"
    /\ resp.body \in saved_jobs
    /\ Cardinality(saved_jobs) = 2

====
